---- MODULE Spec2Model ----
(***************************************************************************)
(* A state-machine model of the Eluna scripting environment                *)
(* (src/LuaEngine.cpp, src/LuaEngine.h): the reload lifecycle, the         *)
(* protected call, the dispatch helpers, registration and cancellation,    *)
(* and the callstack-id object guard.                                      *)
(*                                                                         *)
(* Control is a stack of frames.  The host has control when the stack is   *)
(* empty; a frame whose `running` field is TRUE is a lua_pcall in          *)
(* progress, during which the script may use the script-side operations    *)
(* (Script... actions).  BindingMap.h, HookHelpers.h, Hooks.h, the event   *)
(* manager and ElunaTemplate.h are not part of src/: the definitions that  *)
(* stand for them follow the specification and say so.                     *)
(***************************************************************************)
EXTENDS Integers, Sequences, FiniteSets, TLC

(***************************************************************************)
(* Bounds of the model.                                                    *)
(***************************************************************************)
MaxBindingId == 2
MaxShots == 2
MaxDepth == 2
MaxCallstackId == 4
MaxQueries == 1
MaxTimed == 1
MaxArgs == 1

(***************************************************************************)
(* Registration types (Hooks::RegisterTypes) and the stores that           *)
(* CreateBindStores builds for them, with the key shape of each.           *)
(***************************************************************************)
EventKeyTypes == {"REGTYPE_SERVER", "REGTYPE_PLAYER", "REGTYPE_GUILD",
                  "REGTYPE_GROUP", "REGTYPE_VEHICLE", "REGTYPE_BG"}

EntryKeyTypes == {"REGTYPE_PACKET", "REGTYPE_CREATURE", "REGTYPE_CREATURE_GOSSIP",
                  "REGTYPE_GAMEOBJECT", "REGTYPE_GAMEOBJECT_GOSSIP", "REGTYPE_SPELL",
                  "REGTYPE_ITEM", "REGTYPE_ITEM_GOSSIP", "REGTYPE_PLAYER_GOSSIP",
                  "REGTYPE_MAP", "REGTYPE_INSTANCE"}

UniqueKeyTypes == {"REGTYPE_CREATURE_UNIQUE"}

RegTypes == EventKeyTypes \cup EntryKeyTypes \cup UniqueKeyTypes

EventKey(event_id) == [event_id |-> event_id]

EntryKey(event_id, entry) == [event_id |-> event_id, entry |-> entry]

UniqueObjectKey(event_id, guid, instance_id) ==
    [event_id |-> event_id, guid |-> guid, instance_id |-> instance_id]

\* Event ids of Hooks.h used by the lifecycle hooks, and the event counts
\* Register compares against.
ELUNA_EVENT_ON_LUA_STATE_CLOSE == 16
ELUNA_EVENT_ON_LUA_STATE_OPEN == 33
SERVER_EVENT_COUNT == 34
CREATURE_EVENT_ON_ENTER_COMBAT == 1
CREATURE_EVENT_COUNT == 2

\* The counts of the other event families; the model raises none of their
\* events except the instance events, and takes small counts for them.
PLAYER_EVENT_COUNT == 2
GUILD_EVENT_COUNT == 2
GROUP_EVENT_COUNT == 2
VEHICLE_EVENT_COUNT == 2
BG_EVENT_COUNT == 2
PACKET_EVENT_COUNT == 2
GOSSIP_EVENT_COUNT == 2
GAMEOBJECT_EVENT_COUNT == 2
SPELL_EVENT_COUNT == 2
ITEM_EVENT_COUNT == 2
INSTANCE_EVENT_COUNT == 3

\* Packet opcodes are the numbers below NUM_MSG_TYPES.
NUM_MSG_TYPES == 2

\* Creature template entries the host's object manager knows.
CreatureTemplates == {1}

\* Gameobject and item template entries the object manager knows.
GameObjectTemplates == {1}

ItemTemplates == {1}

\* sElunaLoader->GetLuaScripts(): the ordered script units of one load batch.
Scripts == << [filename |-> "a", mapId |-> -1],
              [filename |-> "b", mapId |-> 1] >>

\* Map ids an environment may be bound to (-1: bound to no map).
BoundMapIds == {1}

NULL == "NULL"

Builds == {"trinity", "cmangos", "other"}

VARIABLES
    build,               \* which of the #if branches was compiled
    boundMapId,          \* GetBoundMapId()
    scripts,             \* sElunaLoader->GetLuaScripts()
    cacheState,          \* sElunaLoader->GetCacheState() == SCRIPT_CACHE_READY
    L,                   \* the interpreter handle: NULL or "open"
    reload,              \* Eluna::reload
    event_level,         \* Eluna::event_level
    push_counter,        \* Eluna::push_counter
    callstackid,         \* Eluna::callstackid (absent when TRACKABLE_PTR_NAMESPACE)
    bindingMaps,         \* Eluna::bindingMaps: regtype -> list of bindings (absent: NULL)
    maxBindingID,        \* the last binding id handed out
    registry,            \* live references of the interpreter's registry
    instanceDataRefs,    \* Eluna::instanceDataRefs: set of <<instanceId, ref>>
    continentDataRefs,   \* Eluna::continentDataRefs: set of <<mapId, ref>>
    timedEvents,         \* timed events the event manager holds
    queries,             \* outstanding asynchronous queries (ELUNA_TRINITY)
    handles,             \* callstack ids stamped on the object handles scripts hold
    cancels,             \* cancel closures scripts hold: [id, regtype]
    lstack,              \* the interpreter's value stack
    stack,               \* control stack of frames
    pre,                 \* history: what existed when the current reload began
    last,                \* history: the last script-side operation and its outcome
    issued               \* history: the binding ids Insert has returned so far

vars == << build, boundMapId, scripts, cacheState, L, reload, event_level, push_counter,
           callstackid, bindingMaps, maxBindingID, registry, instanceDataRefs,
           continentDataRefs, timedEvents, queries, handles, cancels, lstack,
           stack, pre, last, issued >>

\* TRACKABLE_PTR_NAMESPACE is defined for ELUNA_TRINITY and ELUNA_CMANGOS.
Trackable == build \in {"trinity", "cmangos"}

Trinity == build = "trinity"

NoPre == [ids |-> {}, refs |-> {}, inst |-> {}, ninst |-> 0, active |-> FALSE]

Top == stack[Len(stack)]

Pop(s) == SubSeq(s, 1, Len(s) - 1)

HostControl == stack = << >>

InCall == stack # << >> /\ Top.running

ReplaceTop(s, f) == [s EXCEPT ![Len(s)] = f]

Min(a, b) == IF a < b THEN a ELSE b

\* The last script-side operation, for the history variable `last`.
Did(op, id) == [op |-> op, id |-> id]

Quiet == Did("-", 0)

\* A cancellation that found registration b: what b was is kept with it.
Cancelled(b) == [op |-> "cancel_hit", id |-> b.id, key |-> b.key, limit |-> b.limit]

(***************************************************************************)
(* Binding store (BindingMap.h): a list of registrations in insertion      *)
(* order; the list of one key is its sub-list.                             *)
(***************************************************************************)
Insert(store, key, ref, shots, id) ==
    Append(store, [id |-> id, key |-> key, ref |-> ref, shots |-> shots])

Remove(store, id) == SelectSeq(store, LAMBDA b : b.id # id)

Clear(store, key) == SelectSeq(store, LAMBDA b : b.key # key)

HasBindingsForAnyKey(store, key) == store # << >>

HasBindingsFor(store, key) == \E i \in DOMAIN store : store[i].key = key

BindingsFor(store, key) == SelectSeq(store, LAMBDA b : b.key = key)

Reverse(s) == [i \in 1..Len(s) |-> s[Len(s) + 1 - i]]

\* All registrations of all stores, as a set.
AllBindingsOf(maps) ==
    UNION { { maps[rt][i] : i \in DOMAIN maps[rt] } : rt \in DOMAIN maps }

AllBindings == AllBindingsOf(bindingMaps)

AllIds == { b.id : b \in AllBindings }

\* luaL_ref: a free slot of the registry.
LuaRef(reg) == CHOOSE n \in 1..(Cardinality(reg) + 1) : n \notin reg

(***************************************************************************)
(* Eluna::CreateBindStores / DestroyBindStores                             *)
(***************************************************************************)
\* Binding ids are not part of a store: the last id handed out is the same
\* after the stores are destroyed.
MaxIdAfterDestroyReset(maxId) == 0

MaxIdAfterDestroy(maxId) == maxId

\* A destroyed store is absent from the map.
DestroyBindStores(maps) == [rt \in {} |-> << >>]

CreateBindStoresWithoutUnique(maps) == [rt \in RegTypes \ UniqueKeyTypes |-> << >>]

CreateBindStores(maps) == [rt \in RegTypes |-> << >>]

\* The key type CreateBindStores (157-181) instantiates the store of each
\* registration type with: CreateBinding<Shape<Family>>(type).
KeyType(shape, family) == [shape |-> shape, family |-> family]

StoreKeyType(regtype) ==
    CASE regtype = "REGTYPE_SERVER" -> KeyType("EventKey", "ServerEvents")
      [] regtype = "REGTYPE_PLAYER" -> KeyType("EventKey", "PlayerEvents")
      [] regtype = "REGTYPE_GUILD" -> KeyType("EventKey", "GuildEvents")
      [] regtype = "REGTYPE_GROUP" -> KeyType("EventKey", "GroupEvents")
      [] regtype = "REGTYPE_VEHICLE" -> KeyType("EventKey", "VehicleEvents")
      [] regtype = "REGTYPE_BG" -> KeyType("EventKey", "BGEvents")
      [] regtype = "REGTYPE_PACKET" -> KeyType("EntryKey", "PacketEvents")
      [] regtype = "REGTYPE_CREATURE" -> KeyType("EntryKey", "CreatureEvents")
      [] regtype = "REGTYPE_CREATURE_GOSSIP" -> KeyType("EntryKey", "GossipEvents")
      [] regtype = "REGTYPE_GAMEOBJECT" -> KeyType("EntryKey", "GameObjectEvents")
      [] regtype = "REGTYPE_GAMEOBJECT_GOSSIP" -> KeyType("EntryKey", "GossipEvents")
      [] regtype = "REGTYPE_SPELL" -> KeyType("EntryKey", "SpellEvents")
      [] regtype = "REGTYPE_ITEM" -> KeyType("EntryKey", "ItemEvents")
      [] regtype = "REGTYPE_ITEM_GOSSIP" -> KeyType("EntryKey", "GossipEvents")
      [] regtype = "REGTYPE_PLAYER_GOSSIP" -> KeyType("EntryKey", "GossipEvents")
      [] regtype = "REGTYPE_MAP" -> KeyType("EntryKey", "InstanceEvents")
      [] regtype = "REGTYPE_INSTANCE" -> KeyType("EntryKey", "InstanceEvents")
      [] regtype = "REGTYPE_CREATURE_UNIQUE" -> KeyType("UniqueObjectKey", "CreatureEvents")
      [] OTHER -> KeyType("", "")

\* GetBinding<T>(type) (LuaEngine.h 363-369) yields a store: the map has the
\* type and the dynamic_cast to BindingMap<T> succeeds.
GetBinding(maps, T, type) == type \in DOMAIN maps /\ StoreKeyType(type) = T

\* The key type Register (704-869) asks GetBinding for in the branch of each
\* registration type: Register{Basic,Entry,Unique}Binding<Family>.
RegisterKeyType(regtype) ==
    CASE regtype = "REGTYPE_SERVER" -> KeyType("EventKey", "ServerEvents")
      [] regtype = "REGTYPE_PLAYER" -> KeyType("EventKey", "PlayerEvents")
      [] regtype = "REGTYPE_GUILD" -> KeyType("EventKey", "GuildEvents")
      [] regtype = "REGTYPE_GROUP" -> KeyType("EventKey", "GroupEvents")
      [] regtype = "REGTYPE_VEHICLE" -> KeyType("EventKey", "VehicleEvents")
      [] regtype = "REGTYPE_BG" -> KeyType("EventKey", "BGEvents")
      [] regtype = "REGTYPE_PACKET" -> KeyType("EntryKey", "PacketEvents")
      [] regtype = "REGTYPE_CREATURE" -> KeyType("EntryKey", "CreatureEvents")
      [] regtype = "REGTYPE_CREATURE_UNIQUE" -> KeyType("UniqueObjectKey", "CreatureEvents")
      [] regtype = "REGTYPE_CREATURE_GOSSIP" -> KeyType("EntryKey", "GossipEvents")
      [] regtype = "REGTYPE_GAMEOBJECT" -> KeyType("EntryKey", "GameObjectEvents")
      [] regtype = "REGTYPE_GAMEOBJECT_GOSSIP" -> KeyType("EntryKey", "GossipEvents")
      [] regtype = "REGTYPE_SPELL" -> KeyType("EntryKey", "SpellEvents")
      [] regtype = "REGTYPE_ITEM" -> KeyType("EntryKey", "ItemEvents")
      [] regtype = "REGTYPE_ITEM_GOSSIP" -> KeyType("EntryKey", "GossipEvents")
      [] regtype = "REGTYPE_PLAYER_GOSSIP" -> KeyType("EntryKey", "GossipEvents")
      [] regtype \in {"REGTYPE_MAP", "REGTYPE_INSTANCE"} -> KeyType("EntryKey", "InstanceEvents")
      [] OTHER -> KeyType("", "")

(***************************************************************************)
(* Eluna::Register (LuaEngine.cpp 704-869): the key a registration is      *)
(* stored under, or a rejection.                                           *)
(***************************************************************************)
\* eObjectMgr->GetCreatureTemplate / GetGameObjectTemplate / GetItemTemplate
\* finds a template for the entry.
HasTemplateAlways(templates, entry) == TRUE

HasTemplate(templates, entry) == entry \in templates

\* A rejecting path: luaL_unref(L, LUA_REGISTRYINDEX, functionRef), then
\* luaL_error, which does not return.  unrefs is the number of luaL_unref
\* calls on the path.
RejectedKeepsRef(err) == [ok |-> FALSE, key |-> EventKey(0), err |-> err, unrefs |-> 0]

Rejected(err) == [ok |-> FALSE, key |-> EventKey(0), err |-> err, unrefs |-> 1]

Accepted(key) == [ok |-> TRUE, key |-> key, err |-> "", unrefs |-> 0]

\* The fall-through of the switch: luaL_error "Unknown event type (%s)".
UnknownEventType == Rejected("Unknown event type")

Register(regtype, entry, guid, instanceId, event_id) ==
    CASE regtype = "REGTYPE_SERVER" ->
            IF event_id < SERVER_EVENT_COUNT THEN Accepted(EventKey(event_id))
            ELSE UnknownEventType
      [] regtype = "REGTYPE_PLAYER" ->
            IF event_id < PLAYER_EVENT_COUNT THEN Accepted(EventKey(event_id))
            ELSE UnknownEventType
      [] regtype = "REGTYPE_GUILD" ->
            IF event_id < GUILD_EVENT_COUNT THEN Accepted(EventKey(event_id))
            ELSE UnknownEventType
      [] regtype = "REGTYPE_GROUP" ->
            IF event_id < GROUP_EVENT_COUNT THEN Accepted(EventKey(event_id))
            ELSE UnknownEventType
      [] regtype = "REGTYPE_VEHICLE" ->
            IF event_id < VEHICLE_EVENT_COUNT THEN Accepted(EventKey(event_id))
            ELSE UnknownEventType
      [] regtype = "REGTYPE_BG" ->
            IF event_id < BG_EVENT_COUNT THEN Accepted(EventKey(event_id))
            ELSE UnknownEventType
      [] regtype = "REGTYPE_PACKET" ->
            IF event_id < PACKET_EVENT_COUNT
            THEN IF entry >= NUM_MSG_TYPES THEN Rejected("Couldn't find a creature")
                 ELSE Accepted(EntryKey(event_id, entry))
            ELSE UnknownEventType
      [] regtype = "REGTYPE_CREATURE" ->
            IF event_id < CREATURE_EVENT_COUNT
            THEN IF ~HasTemplate(CreatureTemplates, entry) THEN Rejected("Couldn't find a creature")
                 ELSE Accepted(EntryKey(event_id, entry))
            ELSE UnknownEventType
      [] regtype = "REGTYPE_CREATURE_UNIQUE" ->
            IF event_id < CREATURE_EVENT_COUNT
            THEN IF guid = 0 THEN Rejected("guid was 0!")
                 ELSE Accepted(UniqueObjectKey(event_id, guid, instanceId))
            ELSE UnknownEventType
      [] regtype = "REGTYPE_CREATURE_GOSSIP" ->
            IF event_id < GOSSIP_EVENT_COUNT
            THEN IF ~HasTemplate(CreatureTemplates, entry) THEN Rejected("Couldn't find a creature")
                 ELSE Accepted(EntryKey(event_id, entry))
            ELSE UnknownEventType
      [] regtype = "REGTYPE_GAMEOBJECT" ->
            IF event_id < GAMEOBJECT_EVENT_COUNT
            THEN IF ~HasTemplate(GameObjectTemplates, entry) THEN Rejected("Couldn't find a gameobject")
                 ELSE Accepted(EntryKey(event_id, entry))
            ELSE UnknownEventType
      [] regtype = "REGTYPE_GAMEOBJECT_GOSSIP" ->
            IF event_id < GOSSIP_EVENT_COUNT
            THEN IF ~HasTemplate(GameObjectTemplates, entry) THEN Rejected("Couldn't find a gameobject")
                 ELSE Accepted(EntryKey(event_id, entry))
            ELSE UnknownEventType
      [] regtype = "REGTYPE_SPELL" ->
            IF event_id < SPELL_EVENT_COUNT THEN Accepted(EntryKey(event_id, entry))
            ELSE UnknownEventType
      [] regtype = "REGTYPE_ITEM" ->
            IF event_id < ITEM_EVENT_COUNT
            THEN IF ~HasTemplate(ItemTemplates, entry) THEN Rejected("Couldn't find a item")
                 ELSE Accepted(EntryKey(event_id, entry))
            ELSE UnknownEventType
      [] regtype = "REGTYPE_ITEM_GOSSIP" ->
            IF event_id < GOSSIP_EVENT_COUNT
            THEN IF ~HasTemplate(ItemTemplates, entry) THEN Rejected("Couldn't find a item")
                 ELSE Accepted(EntryKey(event_id, entry))
            ELSE UnknownEventType
      [] regtype = "REGTYPE_PLAYER_GOSSIP" ->
            IF event_id < GOSSIP_EVENT_COUNT THEN Accepted(EntryKey(event_id, entry))
            ELSE UnknownEventType
      [] regtype \in {"REGTYPE_MAP", "REGTYPE_INSTANCE"} ->
            IF event_id < INSTANCE_EVENT_COUNT THEN Accepted(EntryKey(event_id, entry))
            ELSE UnknownEventType
      [] OTHER -> UnknownEventType

\* RegisterBasicBinding / RegisterEntryBinding / RegisterUniqueBinding
\* (LuaEngine.cpp 670-701): binding->Insert(key, functionRef, shots).
RegisterBindingShotsZero(maps, regtype, key, functionRef, shots, id) ==
    [maps EXCEPT ![regtype] =
        Insert(@, key, functionRef, IF shots = 0 THEN 1 ELSE shots, id)]

RegisterBindingOneMore(maps, regtype, key, functionRef, shots, id) ==
    [maps EXCEPT ![regtype] =
        Insert(@, key, functionRef, IF shots = 0 THEN 0 ELSE shots + 1, id)]

RegisterBinding(maps, regtype, key, functionRef, shots, id) ==
    [maps EXCEPT ![regtype] = Insert(@, key, functionRef, shots, id)]

\* What scripts register: (regtype, entry, guid, instanceId, event_id).
RegInputs ==
    { [regtype |-> "REGTYPE_SERVER", entry |-> 0, guid |-> 0, instanceId |-> 0,
       event_id |-> ELUNA_EVENT_ON_LUA_STATE_CLOSE],
      [regtype |-> "REGTYPE_SERVER", entry |-> 0, guid |-> 0, instanceId |-> 0,
       event_id |-> ELUNA_EVENT_ON_LUA_STATE_OPEN],
      [regtype |-> "REGTYPE_CREATURE", entry |-> 1, guid |-> 0, instanceId |-> 0,
       event_id |-> CREATURE_EVENT_ON_ENTER_COMBAT] }

\* The events the host raises through hooks, and scripts raise by nesting.
RaiseKeys ==
    { [regtype |-> "REGTYPE_CREATURE",
       key |-> EntryKey(CREATURE_EVENT_ON_ENTER_COMBAT, 1)] }

(***************************************************************************)
(* Interpreter stack values.                                               *)
(***************************************************************************)
FnValue(id) == [t |-> "fn", v |-> id]

EvValue(e) == [t |-> "ev", v |-> e]

ArgValue(i) == [t |-> "arg", v |-> i]

NilValue == [t |-> "nil", v |-> 0]

ResValue == [t |-> "res", v |-> 0]

\* lua_pushboolean(L, b)
BoolValue(b) == [t |-> "bool", v |-> IF b THEN 1 ELSE 0]

\* What a callback called for one result may return: true, false, or
\* something that is no boolean.
ReturnValues == { BoolValue(TRUE), BoolValue(FALSE), NilValue }

(***************************************************************************)
(* Eluna::ExecuteCall (LuaEngine.cpp 288-343)                              *)
(***************************************************************************)
\* lua_pcall takes the function and its params off the stack.
PcallEnterKeepsFunction(ls, params) == SubSeq(ls, 1, Len(ls) - params)

PcallEnter(ls, params) == SubSeq(ls, 1, Len(ls) - params - 1)

\* The function ExecuteCall is about to call: the value at base.
CalledFunction(ls, params) == ls[Len(ls) - params]

\* After the call: the results, or on error `res` nils (the message is
\* reported and popped).
ExecuteCallLeaves(ls, raised, res) ==
    ls \o [i \in 1..res |-> IF raised THEN NilValue ELSE ResValue]

\* The same with the values the function returned: on error they are
\* replaced by as many nils.
ExecuteCallResultsIgnoreError(ls, raised, results) == ls \o results

ExecuteCallResults(ls, raised, results) ==
    ls \o (IF raised THEN [i \in 1..Len(results) |-> NilValue] ELSE results)

\* The whole of ExecuteCall(params, res) on a stack that ends with a
\* function and its params, when the function does not call back.
MaxParams == 2
MaxRes == 2

\* lua_pushcfunction(L, &StackTrace)
TraceFn == [t |-> "trace", v |-> 0]

\* The error value lua_pcall leaves: the message, or what the message
\* handler StackTrace (258-286) returned for it.
ErrValue(traced) == [t |-> "err", v |-> IF traced THEN 1 ELSE 0]

\* lua_insert: the top value moves to idx, the values from idx up shift.
lua_insert(ls, idx) ==
    SubSeq(ls, 1, idx - 1) \o << ls[Len(ls)] >> \o SubSeq(ls, idx, Len(ls) - 1)

\* lua_remove: the value at idx goes, the values above it shift down.
lua_remove(ls, idx) == SubSeq(ls, 1, idx - 1) \o SubSeq(ls, idx + 1, Len(ls))

\* The function's results adjusted to nresults: cut, or filled with nil.
Adjust(returned, nresults) ==
    [i \in 1..nresults |-> IF i <= Len(returned) THEN returned[i] ELSE NilValue]

\* lua_pcall(L, nargs, nresults, msgh): the function and its nargs are
\* replaced by nresults results, or on error by the one error value.
lua_pcall(ls, nargs, nresults, msgh, raised, returned) ==
    SubSeq(ls, 1, Len(ls) - nargs - 1)
       \o (IF raised THEN << ErrValue(msgh # 0) >> ELSE Adjust(returned, nresults))

\* Eluna::Report (251-256): the message on top is logged and popped.
ReportKeepsMessage(ls) == ls

Report(ls) == SubSeq(ls, 1, Len(ls) - 1)

ExecuteCall(ls, params, res, usetrace, raised, returned) ==
    LET top == Len(ls)
        base == top - params
        ls1 == IF usetrace THEN lua_insert(Append(ls, TraceFn), base) ELSE ls
        ls2 == lua_pcall(ls1, params, res, IF usetrace THEN base ELSE 0, raised, returned)
        ls3 == IF usetrace THEN lua_remove(ls2, base) ELSE ls2
    IN  IF raised THEN Report(ls3) \o [i \in 1..res |-> NilValue] ELSE ls3

ExecuteCallReturnsAlwaysTrue(raised) == TRUE

ExecuteCallReturns(raised) == ~raised

(***************************************************************************)
(* Eluna::CleanUpStack (888-899) and InvalidateObjects (243-249)           *)
(***************************************************************************)
InvalidateObjects(cid) == cid + 1

CleanUpStackIdAlways(level, cid) == InvalidateObjects(cid)

CleanUpStackId(level, cid) ==
    IF level = 0 THEN InvalidateObjects(cid) ELSE cid

CleanUpStackPop(ls, number_of_arguments) ==
    SubSeq(ls, 1, Len(ls) - (number_of_arguments + 1))

(***************************************************************************)
(* HookHelpers.h: SetupStack / CallAllFunctions, and the hook prologue     *)
(* (START_HOOK): nothing happens for a key without bindings.               *)
(***************************************************************************)
SetupStack(ls, store, key, number_of_arguments) ==
    LET list == BindingsFor(store, key)
    IN  ls \o << EvValue(key.event_id) >>
           \o [i \in 1..number_of_arguments |-> ArgValue(i)]
           \o Reverse([i \in 1..Len(list) |-> FnValue(list[i].id)])

\* CallAllFunctions: no results are asked of the callbacks (nres 0).
DispatchFrame(regtype, key, nargs) ==
    [kind |-> "disp", running |-> FALSE, regtype |-> regtype, key |-> key,
     nargs |-> nargs, nfuncs |-> Len(BindingsFor(bindingMaps[regtype], key)),
     cur |-> 0, log |-> << >>,
     snap |-> [i \in 1..Len(BindingsFor(bindingMaps[regtype], key)) |->
                  BindingsFor(bindingMaps[regtype], key)[i].id],
     nres |-> 0, default |-> FALSE, any |-> FALSE,
     passed |-> << >>, r |-> 0]

\* CallAllFunctionsBool(default_value): one result is asked of each
\* callback; `any` is whether a callback has returned true so far.
DispatchFrameBool(regtype, key, nargs, default_value) ==
    [DispatchFrame(regtype, key, nargs) EXCEPT !.nres = 1, !.default = default_value]

\* The result of CallAllFunctionsBool: default_value when the key had no
\* registration, else whether a callback returned true.
CallAllFunctionsBoolResult(nfuncs, default_value, any) ==
    IF nfuncs = 0 THEN default_value ELSE any

\* What CallAllFunctionsBool makes of one callback's result.
IsTrue(value) == value = BoolValue(TRUE)

HookBoundAlways(regtype, key) == TRUE

HookBound(regtype, key) == HasBindingsFor(bindingMaps[regtype], key)

\* The control stack and interpreter stack after a hook for `key` starts on
\* top of control stack `base`.
HookControl(base, regtype, key, nargs) ==
    IF HookBound(regtype, key) THEN Append(base, DispatchFrame(regtype, key, nargs))
    ELSE base

HookLStack(ls, regtype, key, nargs) ==
    IF HookBound(regtype, key) THEN SetupStack(ls, bindingMaps[regtype], key, nargs)
    ELSE ls

HookPushCounter(regtype, key) ==
    IF HookBound(regtype, key) THEN 0 ELSE push_counter

\* After a successful call of registration `id`: a finite invocation limit
\* is decremented and the registration removed at zero.
AfterSuccess(store, id) ==
    LET hit == { i \in DOMAIN store : store[i].id = id /\ store[i].shots > 0 }
    IN  IF hit = {} THEN store
        ELSE LET i == CHOOSE j \in hit : TRUE
             IN  IF store[i].shots = 1 THEN Remove(store, id)
                 ELSE [store EXCEPT ![i].shots = @ - 1]

\* The registry once the stores are maps2: the callables of the
\* registrations that are gone are released.
ReleaseGone(reg, maps2) ==
    reg \ { b.ref : b \in { x \in AllBindings : x.id \notin { y.id : y \in AllBindingsOf(maps2) } } }

(***************************************************************************)
(* History bookkeeping.                                                    *)
(***************************************************************************)
\* What is left of the reload snapshot once the registry is reg2 and the
\* instance data records are inst2.
PreNext(reg2, inst2) ==
    IF pre.active
    THEN [pre EXCEPT !.refs = @ \cap reg2, !.inst = @ \cap inst2]
    ELSE pre

InstRecords == instanceDataRefs \cup continentDataRefs

CountCap == MaxShots

\* History kept with a registration: the limit the script asked for, the
\* number of its invocations and of its successful invocations (counted up
\* to CountCap).
Stamp(maps, regtype, id, limit) ==
    [maps EXCEPT ![regtype] =
        [i \in DOMAIN @ |->
            IF @[i].id = id
            THEN [id |-> id, key |-> @[i].key, ref |-> @[i].ref, shots |-> @[i].shots,
                  limit |-> limit, calls |-> 0, succ |-> 0]
            ELSE @[i]]]

Invoked(maps, regtype, id) ==
    [maps EXCEPT ![regtype] =
        [i \in DOMAIN @ |->
            IF @[i].id = id THEN [@[i] EXCEPT !.calls = Min(@ + 1, CountCap)] ELSE @[i]]]

Succeeded(maps, regtype, id) ==
    [maps EXCEPT ![regtype] =
        [i \in DOMAIN @ |->
            IF @[i].id = id THEN [@[i] EXCEPT !.succ = Min(@ + 1, CountCap)] ELSE @[i]]]

(***************************************************************************)
(* Init: the members as the constructor's initialiser list leaves them     *)
(* (LuaEngine.cpp 54-58, LuaEngine.h 161-176); the constructor body is the *)
(* Constructor action.                                                     *)
(***************************************************************************)
InitEnv(lists, mapIds) ==
    /\ build \in Builds
    /\ boundMapId \in mapIds
    /\ scripts \in lists
    /\ cacheState \in BOOLEAN
    /\ L = NULL
    /\ reload = FALSE
    /\ event_level = 0
    /\ push_counter = 0
    /\ callstackid = 2
    /\ bindingMaps = [rt \in {} |-> << >>]
    /\ maxBindingID = 0
    /\ issued = {}
    /\ registry = {}
    /\ instanceDataRefs = {}
    /\ continentDataRefs = {}
    /\ timedEvents = 0
    /\ queries = 0
    /\ handles = {}
    /\ cancels = {}
    /\ lstack = << >>
    /\ stack = << [kind |-> "ctor", running |-> FALSE] >>
    /\ pre = NoPre
    /\ last = Quiet

\* An environment bound to a map, with the loader's script list.
Init == InitEnv({Scripts}, BoundMapIds)

\* RunScripts at its first script; `log` is history: what became of each
\* script of the batch so far.
RunFrame == [kind |-> "run", running |-> FALSE, idx |-> 1, loaded |-> {}, log |-> << >>]

\* The reload flag when the constructor returns or starts RunScripts
\* (63-67): set when the script cache is not ready.
ConstructorReloadNever(ready, flag) == flag

ConstructorReload(ready, flag) == IF ready THEN flag ELSE TRUE

\* Eluna::Eluna (54-68): OpenLua, then RunScripts if the script cache is
\* ready, else the reload flag.
Constructor ==
    /\ stack # << >> /\ Top.kind = "ctor"
    /\ L' = "open"
    /\ bindingMaps' = CreateBindStores(bindingMaps)
    /\ IF cacheState
       THEN /\ stack' = << RunFrame >>
            /\ lstack' = Append(lstack, FnValue(0))
       ELSE /\ stack' = << >>
            /\ lstack' = lstack
    /\ reload' = ConstructorReload(cacheState, reload)
    /\ last' = Did("create", 0)
    /\ UNCHANGED << build, boundMapId, scripts, cacheState, event_level, push_counter,
                    callstackid, maxBindingID, issued, registry, instanceDataRefs,
                    continentDataRefs, timedEvents, queries, handles, cancels,
                    pre >>

\* The script source becomes ready, or is being rebuilt.
CacheChange ==
    /\ HostControl
    /\ cacheState' = ~cacheState
    /\ last' = Quiet
    /\ UNCHANGED << build, boundMapId, scripts, L, reload, event_level, push_counter,
                    callstackid, bindingMaps, maxBindingID, issued, registry,
                    instanceDataRefs, continentDataRefs, timedEvents, queries,
                    handles, cancels, lstack, stack, pre >>

(***************************************************************************)
(* Eluna::RunScripts (189-241)                                             *)
(***************************************************************************)
\* The map test of the loop (208): the script is tagged for another map.
FilteredOutNever(it, mapId) == FALSE

FilteredOut(it, mapId) == it.mapId # -1 /\ it.mapId # mapId

\* `loaded` after line 220, which precedes the call.
MarkLoadedNever(loaded, filename) == loaded

MarkLoaded(loaded, filename) == loaded \cup {filename}

\* The loop goes on with the next script whether or not ExecuteCall
\* succeeded (227-235); n is the number of scripts.
RunScriptsAbortOnFailure(idx, raised, n) == IF raised THEN n + 1 ELSE idx + 1

RunScriptsAfterCall(idx, raised, n) == idx + 1

\* One turn of the loop: the script is filtered out, a duplicate, or
\* `require`d through ExecuteCall(1, 0).
RunScriptsStep ==
    /\ stack # << >> /\ Top.kind = "run" /\ ~Top.running
    /\ Top.idx <= Len(scripts)
    /\ LET it == scripts[Top.idx]
       IN  IF FilteredOut(it, boundMapId) \/ it.filename \in Top.loaded
           THEN /\ stack' = ReplaceTop(stack,
                               [Top EXCEPT !.idx = @ + 1,
                                           !.log = Append(@, IF FilteredOut(it, boundMapId)
                                                             THEN "filtered"
                                                             ELSE "duplicate")])
                /\ UNCHANGED << event_level, lstack >>
           ELSE /\ stack' = ReplaceTop(stack,
                               [Top EXCEPT !.loaded = MarkLoaded(@, it.filename),
                                           !.running = TRUE])
                /\ event_level' = event_level + 1
                /\ lstack' = PcallEnter(lstack \o << FnValue(0), ArgValue(1) >>, 1)
    /\ last' = Quiet
    /\ UNCHANGED << build, boundMapId, scripts, cacheState, L, reload, push_counter,
                    callstackid, bindingMaps, maxBindingID, issued, registry,
                    instanceDataRefs, continentDataRefs, timedEvents, queries,
                    handles, cancels, pre >>

\* After the loop: pop `require`, then OnLuaStateOpen().
RunScriptsEnd ==
    /\ stack # << >> /\ Top.kind = "run" /\ ~Top.running
    /\ Top.idx > Len(scripts)
    /\ LET key == EventKey(ELUNA_EVENT_ON_LUA_STATE_OPEN)
           ls == SubSeq(lstack, 1, Len(lstack) - 1)
       IN  /\ stack' = HookControl(Pop(stack), "REGTYPE_SERVER", key, 0)
           /\ lstack' = HookLStack(ls, "REGTYPE_SERVER", key, 0)
           /\ push_counter' = HookPushCounter("REGTYPE_SERVER", key)
    /\ last' = [op |-> "batch_done", id |-> 0, log |-> Top.log]
    /\ UNCHANGED << build, boundMapId, scripts, cacheState, L, reload, event_level,
                    callstackid, bindingMaps, maxBindingID, issued, registry,
                    instanceDataRefs, continentDataRefs, timedEvents, queries,
                    handles, cancels, pre >>

(***************************************************************************)
(* Hooks raised by the host, and by scripts from inside a callback.        *)
(***************************************************************************)
\* `told` is what the history variable keeps of the raise.
RaiseAs(r, nargs, told) ==
    /\ stack' = HookControl(stack, r.regtype, r.key, nargs)
    /\ lstack' = HookLStack(lstack, r.regtype, r.key, nargs)
    /\ push_counter' = HookPushCounter(r.regtype, r.key)
    /\ last' = told
    /\ UNCHANGED << build, boundMapId, scripts, cacheState, L, reload, event_level,
                    callstackid, bindingMaps, maxBindingID, issued, registry,
                    instanceDataRefs, continentDataRefs, timedEvents, queries,
                    handles, cancels, pre >>

Raise(r, nargs) == RaiseAs(r, nargs, Quiet)

HostRaise ==
    /\ HostControl /\ L # NULL
    /\ Trackable \/ callstackid < MaxCallstackId
    /\ \E r \in RaiseKeys, nargs \in 0..MaxArgs : Raise(r, nargs)

ScriptRaise ==
    /\ InCall /\ event_level < MaxDepth
    /\ \E r \in RaiseKeys, nargs \in 0..MaxArgs : Raise(r, nargs)

\* A hook that returns a boolean (START_HOOK_WITH_RETVAL, then
\* CallAllFunctionsBool): without registrations it returns default_value.
HostRaiseBool ==
    /\ HostControl /\ L # NULL
    /\ Trackable \/ callstackid < MaxCallstackId
    /\ \E r \in RaiseKeys, nargs \in 0..MaxArgs, default_value \in BOOLEAN :
          /\ IF HookBound(r.regtype, r.key)
             THEN /\ stack' = Append(stack, DispatchFrameBool(r.regtype, r.key, nargs,
                                                               default_value))
                  /\ lstack' = SetupStack(lstack, bindingMaps[r.regtype], r.key, nargs)
                  /\ push_counter' = 0
                  /\ last' = Quiet
             ELSE /\ last' = [op |-> "bool_result", id |-> 0, default |-> default_value,
                              log |-> << >>,
                              value |-> CallAllFunctionsBoolResult(0, default_value, FALSE)]
                  /\ UNCHANGED << stack, lstack, push_counter >>
    /\ UNCHANGED << build, boundMapId, scripts, cacheState, L, reload, event_level,
                    callstackid, bindingMaps, maxBindingID, issued, registry,
                    instanceDataRefs, continentDataRefs, timedEvents, queries,
                    handles, cancels, pre >>

\* Eluna::CallOneFunction (906-929) up to lua_pcall: the shared arguments
\* are copied to the top and the function below them is called.
CallOneFunctionEnterFirst(ls, number_of_functions, number_of_arguments) ==
    LET nargs == number_of_arguments + 1
        functions_top == Len(ls)
        first_function_index == functions_top - number_of_functions + 1
        arguments_top == first_function_index - 1
        first_argument_index == arguments_top - nargs + 1
    IN  SubSeq(ls, 1, arguments_top)
           \o SubSeq(ls, first_function_index + 1, functions_top)
           \o << ls[first_function_index] >>
           \o SubSeq(ls, first_argument_index, arguments_top)

CallOneFunctionEnter(ls, number_of_functions, number_of_arguments) ==
    LET nargs == number_of_arguments + 1
        functions_top == Len(ls)
        first_function_index == functions_top - number_of_functions + 1
        arguments_top == first_function_index - 1
        first_argument_index == arguments_top - nargs + 1
    IN  ls \o SubSeq(ls, first_argument_index, arguments_top)

\* The params lua_pcall hands to the function: the top `params` values.
PcallArgs(ls, params) == SubSeq(ls, Len(ls) - params + 1, Len(ls))

\* What CallOneFunction returns (926-928): the location of the first
\* result, functions_top after --functions_top, plus one.
CallOneFunctionReturnsAboveTop(ls, number_of_functions) ==
    LET functions_top == Len(ls)
    IN  functions_top + 1

CallOneFunctionReturns(ls, number_of_functions) ==
    LET functions_top == Len(ls)
    IN  (functions_top - 1) + 1

DispatchCall ==
    /\ stack # << >> /\ Top.kind = "disp" /\ ~Top.running /\ Top.nfuncs > 0
    /\ LET ls == CallOneFunctionEnter(lstack, Top.nfuncs, Top.nargs)
       IN  /\ stack' = ReplaceTop(stack,
                          [Top EXCEPT !.running = TRUE,
                                      !.cur = CalledFunction(ls, Top.nargs + 1).v,
                                      !.passed = PcallArgs(ls, Top.nargs + 1),
                                      !.r = CallOneFunctionReturns(lstack, Top.nfuncs)])
           /\ lstack' = PcallEnter(ls, Top.nargs + 1)
           /\ bindingMaps' = Invoked(bindingMaps, Top.regtype,
                                     CalledFunction(ls, Top.nargs + 1).v)
    /\ event_level' = event_level + 1
    /\ last' = Quiet
    /\ UNCHANGED << build, boundMapId, scripts, cacheState, L, reload, push_counter,
                    callstackid, maxBindingID, issued, registry,
                    instanceDataRefs, continentDataRefs, timedEvents, queries,
                    handles, cancels, pre >>

\* CallAllFunctions after its last CallOneFunction: CleanUpStack.
CleanUpStack ==
    /\ stack # << >> /\ Top.kind = "disp" /\ ~Top.running /\ Top.nfuncs = 0
    /\ lstack' = CleanUpStackPop(lstack, Top.nargs)
    /\ callstackid' = IF Trackable THEN callstackid
                      ELSE CleanUpStackId(event_level, callstackid)
    /\ stack' = Pop(stack)
    /\ last' = IF Top.nres = 0 THEN Quiet
               ELSE [op |-> "bool_result", id |-> 0, default |-> Top.default,
                     log |-> Top.log,
                     value |-> CallAllFunctionsBoolResult(Len(Top.snap), Top.default, Top.any)]
    /\ UNCHANGED << build, boundMapId, scripts, cacheState, L, reload, event_level,
                    push_counter, bindingMaps, maxBindingID, issued, registry,
                    instanceDataRefs, continentDataRefs, timedEvents, queries,
                    handles, cancels, pre >>

(***************************************************************************)
(* The end of a protected call: ExecuteCall after lua_pcall (315-342),     *)
(* then what the caller does with it.                                      *)
(***************************************************************************)
ScriptReturnRun(raised) ==
    /\ Top.kind = "run"
    /\ stack' = ReplaceTop(stack,
                   [Top EXCEPT !.running = FALSE,
                               !.idx = RunScriptsAfterCall(@, raised, Len(scripts)),
                               !.log = Append(@, IF raised THEN "failed" ELSE "loaded")])
    /\ lstack' = ExecuteCallLeaves(lstack, raised, 0)
    /\ last' = Quiet
    /\ UNCHANGED << bindingMaps, registry, pre >>

\* CallOneFunction after ExecuteCall (925-928) and CallAllFunctions' loop
\* step: one function fewer; a successful call counts against the limit.
ScriptReturnDispatch(raised) ==
    /\ Top.kind = "disp"
    /\ \E returned \in (IF Top.nres = 0 THEN { << >> }
                        ELSE { << v >> : v \in ReturnValues }) :
       LET id == Top.cur
           rt == Top.regtype
           maps2 == IF raised THEN bindingMaps
                    ELSE [Succeeded(bindingMaps, rt, id) EXCEPT ![rt] = AfterSuccess(@, id)]
           reg2 == ReleaseGone(registry, maps2)
           ls == ExecuteCallResults(lstack, raised, returned)
           true == Top.nres = 1 /\ Top.r \in DOMAIN ls /\ IsTrue(ls[Top.r])
       IN  /\ stack' = ReplaceTop(stack,
                          [Top EXCEPT !.running = FALSE, !.nfuncs = @ - 1, !.cur = 0,
                                      !.passed = << >>,
                                      !.any = @ \/ true,
                                      !.log = Append(@, [id |-> id, raised |-> raised,
                                                         ret |-> ExecuteCallReturns(raised),
                                                         val |-> returned])])
           /\ lstack' = SubSeq(ls, 1, Len(ls) - Top.nres)
           /\ bindingMaps' = maps2
           /\ registry' = reg2
           /\ pre' = PreNext(reg2, InstRecords)
           /\ last' = IF id \in AllIds /\ id \notin { b.id : b \in AllBindingsOf(maps2) }
                      THEN Did("autoremove", id) ELSE Quiet

\* A timed event's or a query's callback returns.
ScriptReturnCall(raised) ==
    /\ Top.kind = "call"
    /\ stack' = Pop(stack)
    /\ lstack' = ExecuteCallLeaves(lstack, raised, 0)
    /\ last' = Quiet
    /\ UNCHANGED << bindingMaps, registry, pre >>

\* --event_level after lua_pcall (316), whatever lua_pcall returned.
LevelAfterCallKeptOnError(level, raised) == IF raised THEN level ELSE level - 1

LevelAfterCall(level, raised) == level - 1

ScriptReturn ==
    /\ InCall
    /\ \E raised \in BOOLEAN :
          /\ event_level' = LevelAfterCall(event_level, raised)
          /\ \/ ScriptReturnRun(raised)
             \/ ScriptReturnDispatch(raised)
             \/ ScriptReturnCall(raised)
    /\ UNCHANGED << build, boundMapId, scripts, cacheState, L, reload, push_counter,
                    callstackid, maxBindingID, issued, instanceDataRefs, continentDataRefs,
                    timedEvents, queries, handles, cancels >>

(***************************************************************************)
(* Script-side operations, available while a protected call runs.          *)
(***************************************************************************)
\* RegisterXxxEvent: luaL_ref of the function, then Eluna::Register; a
\* rejection releases the reference and raises a script error.  `told` is
\* what the history variable keeps of an accepted registration.
createCancelCallbackFirstStore(closures, bindingID, regtype) ==
    closures \cup {[id |-> bindingID, regtype |-> "REGTYPE_SERVER"]}

\* createCancelCallback (660-667): one closure over the binding id and the
\* store the registration went to.
createCancelCallback(closures, bindingID, regtype) ==
    closures \cup {[id |-> bindingID, regtype |-> regtype]}

RegisterCall(in, shots, told) ==
    LET functionRef == LuaRef(registry)
        r == Register(in.regtype, in.entry, in.guid, in.instanceId, in.event_id)
        id == maxBindingID + 1
    IN  /\ IF r.ok
           THEN /\ bindingMaps' = Stamp(RegisterBinding(bindingMaps, in.regtype, r.key,
                                                        functionRef, shots, id),
                                         in.regtype, id, shots)
                /\ maxBindingID' = id
                /\ issued' = issued \cup {id}
                /\ registry' = registry \cup {functionRef}
                /\ cancels' = createCancelCallback(cancels, id, in.regtype)
                /\ last' = told
           ELSE /\ last' = [op |-> "reg_rejected", id |-> 0, in |-> in, err |-> r.err,
                             released |-> r.unrefs]
                /\ registry' = IF r.unrefs = 0 THEN registry \cup {functionRef}
                               ELSE registry
                /\ UNCHANGED << bindingMaps, maxBindingID, issued, cancels >>
        /\ UNCHANGED << build, boundMapId, scripts, cacheState, L, reload, event_level,
                        push_counter, callstackid, instanceDataRefs, continentDataRefs,
                        timedEvents, queries, handles, lstack, stack, pre >>

ScriptRegister ==
    /\ InCall /\ maxBindingID < MaxBindingId
    /\ \E in \in RegInputs, shots \in 0..MaxShots : RegisterCall(in, shots, Quiet)

\* Registration calls of every shape: each registration type and one that
\* is none of them, entries with and without a template, an empty and a
\* non-empty guid, event ids below and not below the family's count.
AnyRegInputs ==
    [regtype : RegTypes \cup {"REGTYPE_COUNT"}, entry : {1, 2}, guid : {0, 1},
     instanceId : {0}, event_id : {1, 2, SERVER_EVENT_COUNT}]

Registered(in, id) == [op |-> "registered", id |-> id, in |-> in, err |-> ""]

ScriptRegisterAny ==
    /\ InCall /\ maxBindingID < MaxBindingId
    /\ \E in \in AnyRegInputs :
          RegisterCall(in, 0, Registered(in, maxBindingID + 1))

(***************************************************************************)
(* hooks/PlayerbotAIHooks.cpp: the hooks of the playerbot AI events.  The   *)
(* store PlayerbotAIEventBindings, its StringKey and the registrations in   *)
(* it are not in the sources at hand: the registrations of the key are an   *)
(* input of the hook, and the callbacks do not call back into the engine.   *)
(***************************************************************************)
PlayerbotAIEvents ==
    << "PLAYERBOTAI_EVENT_ON_UPDATE_AI", "PLAYERBOTAI_EVENT_ON_TRIGGER_CHECK",
       "PLAYERBOTAI_EVENT_ON_ACTION_EXECUTE" >>

EventIdOf(name) == CHOOSE i \in DOMAIN PlayerbotAIEvents : PlayerbotAIEvents[i] = name

StringKey(event, qualifier) == [event_id |-> EventIdOf(event), qualifier |-> qualifier]

Qualifiers == {"a", "b"}

\* Push(value) (LuaEngine.h 273-295): one value on the stack, push_counter
\* as it was.  HookPush(value) (229-245): Push(value); ++push_counter.
HookPushStep(s) == [ls |-> Append(s.ls, ArgValue(s.n + 1)), n |-> s.n + 1,
                    counter |-> s.counter + 1]

PushStep(s) == [ls |-> Append(s.ls, ArgValue(s.n + 1)), n |-> s.n + 1,
                counter |-> s.counter]

\* The loop of CallAllFunctions: CallOneFunction for each function on the
\* stack, top first; log keeps the values each function was called with.
RECURSIVE CallAllFunctionsLoop(_, _, _, _)
CallAllFunctionsLoop(ls, number_of_functions, number_of_arguments, log) ==
    IF number_of_functions = 0 THEN [ls |-> ls, log |-> log]
    ELSE LET entered == CallOneFunctionEnter(ls, number_of_functions, number_of_arguments)
         IN  CallAllFunctionsLoop(PcallEnter(entered, number_of_arguments + 1),
                                  number_of_functions - 1, number_of_arguments,
                                  Append(log, PcallArgs(entered, number_of_arguments + 1)))

\* CallAllFunctions(bindings, key) on the stack the hook left: the number of
\* arguments is push_counter; SetupStack, the calls, CleanUpStack.
CallAllFunctionsOn(s, store, key) ==
    LET number_of_arguments == s.counter
        below == SubSeq(s.ls, 1, Len(s.ls) - number_of_arguments)
        setup == SetupStack(below, store, key, number_of_arguments)
        called == CallAllFunctionsLoop(setup, Len(BindingsFor(store, key)),
                                       number_of_arguments, << >>)
    IN  [ls |-> CleanUpStackPop(called.ls, number_of_arguments), log |-> called.log]

MaxStack == 4

MaxBotFuncs == 2

\* A hook of the file: START_HOOK, the pushes, CallAllFunctions.  pushes is
\* the sequence of the hook's push statements.
PlayerbotHook(event, pushes) ==
    /\ Trackable \/ callstackid < MaxCallstackId
    /\ Len(lstack) + Len(pushes) <= MaxStack
    /\ \E qualifier \in Qualifiers, nfuncs \in 0..MaxBotFuncs :
          LET key == StringKey(event, qualifier)
              store == [i \in 1..nfuncs |-> [id |-> i, key |-> key]]
              start == [ls |-> lstack, n |-> 0, counter |-> push_counter]
              RECURSIVE Pushed(_)
              Pushed(k) == IF k = 0 THEN start
                           ELSE IF pushes[k] = "HookPush" THEN HookPushStep(Pushed(k - 1))
                           ELSE PushStep(Pushed(k - 1))
              s == Pushed(Len(pushes))
              done == CallAllFunctionsOn(s, store, key)
          IN  IF ~HasBindingsFor(store, key)
              THEN /\ last' = [op |-> "hook_unbound", id |-> key.event_id]
                   /\ UNCHANGED << lstack, push_counter, callstackid >>
              ELSE /\ lstack' = done.ls
                   /\ push_counter' = 0
                   /\ callstackid' = IF Trackable THEN callstackid
                                     ELSE CleanUpStackId(event_level, callstackid)
                   /\ last' = [op |-> "hook", id |-> key.event_id, pushed |-> s.n,
                               counter |-> s.counter, before |-> Len(lstack),
                               passed |-> done.log]
    /\ UNCHANGED << build, boundMapId, scripts, cacheState, L, reload, event_level,
                    bindingMaps, maxBindingID, issued, registry, instanceDataRefs,
                    continentDataRefs, timedEvents, queries, handles, cancels,
                    stack, pre >>

\* Eluna::OnUpdateAI (28-33): Push(ai).
OnUpdateAI ==
    /\ HostControl /\ L # NULL
    /\ PlayerbotHook("PLAYERBOTAI_EVENT_ON_UPDATE_AI", << "Push" >>)

\* Eluna::OnTriggerCheck (34-41): Push(ai); Push(trigger); Push(enabled).
OnTriggerCheck ==
    /\ HostControl /\ L # NULL
    /\ PlayerbotHook("PLAYERBOTAI_EVENT_ON_TRIGGER_CHECK", << "Push", "Push", "Push" >>)

\* Eluna::OnActionExecute (42-49): Push(ai); Push(action); Push(success).
OnActionExecute ==
    /\ HostControl /\ L # NULL
    /\ PlayerbotHook("PLAYERBOTAI_EVENT_ON_ACTION_EXECUTE", << "Push", "Push", "Push" >>)

\* Registration calls that Register rejects, one of each kind.
RejectedRegInputs ==
    { [regtype |-> "REGTYPE_COUNT", entry |-> 1, guid |-> 1, instanceId |-> 0,
       event_id |-> 1],
      [regtype |-> "REGTYPE_INSTANCE", entry |-> 7, guid |-> 0, instanceId |-> 0,
       event_id |-> INSTANCE_EVENT_COUNT],
      [regtype |-> "REGTYPE_CREATURE", entry |-> 2, guid |-> 0, instanceId |-> 0,
       event_id |-> 1],
      [regtype |-> "REGTYPE_CREATURE_UNIQUE", entry |-> 1, guid |-> 0, instanceId |-> 0,
       event_id |-> 1] }

ScriptRegisterRejected ==
    /\ InCall
    /\ \E in \in RejectedRegInputs : RegisterCall(in, 0, Quiet)

\* cancelBinding (644-657): bindings->Remove(bindingID) on the store the
\* closure was created for.
cancelBindingSameKey(maps, h) ==
    [maps EXCEPT ![h.regtype] =
        IF \E i \in DOMAIN @ : @[i].id = h.id
        THEN Clear(@, (CHOOSE b \in AllBindingsOf(maps) : b.id = h.id).key)
        ELSE @]

cancelBindingWholeStore(maps, h) == [maps EXCEPT ![h.regtype] = << >>]

cancelBinding(maps, h) == [maps EXCEPT ![h.regtype] = Remove(@, h.id)]

ScriptCancel ==
    /\ InCall
    /\ \E h \in cancels :
          LET maps2 == cancelBinding(bindingMaps, h)
              reg2 == ReleaseGone(registry, maps2)
          IN  /\ bindingMaps' = maps2
              /\ registry' = reg2
              /\ pre' = PreNext(reg2, InstRecords)
              /\ last' = IF h.id \in AllIds
                         THEN Cancelled(CHOOSE b \in AllBindings : b.id = h.id)
                         ELSE Did("cancel_miss", h.id)
    /\ UNCHANGED << build, boundMapId, scripts, cacheState, L, reload, event_level,
                    push_counter, callstackid, maxBindingID, issued, instanceDataRefs,
                    continentDataRefs, timedEvents, queries, handles, cancels,
                    lstack, stack >>

\* Eluna::ReloadEluna (LuaEngine.h 155), from a script or from the host.
ReloadEluna ==
    /\ InCall \/ (HostControl /\ L # NULL)
    /\ reload' = TRUE
    /\ last' = Did("request", 0)
    /\ UNCHANGED << build, boundMapId, scripts, cacheState, L, event_level, push_counter,
                    callstackid, bindingMaps, maxBindingID, issued, registry,
                    instanceDataRefs, continentDataRefs, timedEvents, queries,
                    handles, cancels, lstack, stack, pre >>

\* A host object is pushed to the script: its handle carries the current
\* callstack id.
ScriptCreateHandle ==
    /\ InCall /\ ~Trackable
    /\ handles' = handles \cup {callstackid}
    /\ last' = Quiet
    /\ UNCHANGED << build, boundMapId, scripts, cacheState, L, reload, event_level,
                    push_counter, callstackid, bindingMaps, maxBindingID, issued, registry,
                    instanceDataRefs, continentDataRefs, timedEvents, queries,
                    cancels, lstack, stack, pre >>

\* The script issues an asynchronous query, or creates a timed event.
ScriptQueryAsync ==
    /\ InCall /\ Trinity /\ queries < MaxQueries
    /\ queries' = queries + 1
    /\ last' = Quiet
    /\ UNCHANGED << build, boundMapId, scripts, cacheState, L, reload, event_level,
                    push_counter, callstackid, bindingMaps, maxBindingID, issued, registry,
                    instanceDataRefs, continentDataRefs, timedEvents, handles,
                    cancels, lstack, stack, pre >>

ScriptCreateTimedEvent ==
    /\ InCall /\ timedEvents < MaxTimed
    /\ timedEvents' = timedEvents + 1
    /\ last' = Quiet
    /\ UNCHANGED << build, boundMapId, scripts, cacheState, L, reload, event_level,
                    push_counter, callstackid, bindingMaps, maxBindingID, issued, registry,
                    instanceDataRefs, continentDataRefs, queries, handles,
                    cancels, lstack, stack, pre >>

(***************************************************************************)
(* Instance data (975-1014)                                                *)
(***************************************************************************)
\* The maps of the host: a continent and an instanceable map.
Maps == { [id |-> 0, instanceId |-> 0, instanceable |-> FALSE],
          [id |-> 1, instanceId |-> 7, instanceable |-> TRUE] }

HasInstanceData(map) ==
    IF ~map.instanceable
    THEN \E p \in continentDataRefs : p[1] = map.id
    ELSE \E p \in instanceDataRefs : p[1] = map.instanceId

\* The registry after CreateInstanceData: luaL_ref of the new table, and
\* luaL_unref of the table already stored for the id, if there is one.
CreateInstanceDataKeepsOld(reg, ref, old) == reg \cup {ref}

CreateInstanceDataRefs(reg, ref, old) == (reg \cup {ref}) \ { p[2] : p \in old }

\* PushInstanceData: the reference whose table is pushed for the map.
InstanceDataRef(map) ==
    IF ~map.instanceable
    THEN (CHOOSE p \in continentDataRefs : p[1] = map.id)[2]
    ELSE (CHOOSE p \in instanceDataRefs : p[1] = map.instanceId)[2]

\* Eluna::CreateInstanceData: the table on top of the stack is referenced
\* and stored; a table already stored for the id is released.
CreateInstanceData ==
    /\ InCall \/ (HostControl /\ L # NULL)
    /\ \E map \in Maps :
          LET ref == LuaRef(registry)
              table == IF map.instanceable THEN instanceDataRefs ELSE continentDataRefs
              id == IF map.instanceable THEN map.instanceId ELSE map.id
              old == { p \in table : p[1] = id }
              table2 == (table \ old) \cup { << id, ref >> }
              reg2 == CreateInstanceDataRefs(registry, ref, old)
          IN  /\ registry' = reg2
              /\ IF map.instanceable
                 THEN instanceDataRefs' = table2 /\ UNCHANGED continentDataRefs
                 ELSE continentDataRefs' = table2 /\ UNCHANGED instanceDataRefs
              /\ pre' = IF pre.active
                        THEN [pre EXCEPT !.refs = @ \cap reg2, !.inst = @ \ old]
                        ELSE pre
    /\ last' = Quiet
    /\ UNCHANGED << build, boundMapId, scripts, cacheState, L, reload, event_level,
                    push_counter, callstackid, bindingMaps, maxBindingID, issued,
                    timedEvents, queries, handles, cancels, lstack, stack >>

(***************************************************************************)
(* Eluna::PushInstanceData (1045-1061)                                     *)
(***************************************************************************)
\* Values a hook may leave on the interpreter stack before it dispatches.
MaxPushed == 2

TableValue(ref) == [t |-> "table", v |-> ref]

\* lua_rawgeti(L, LUA_REGISTRYINDEX, ref): the table of a live reference,
\* nil for anything else.
lua_rawgeti(reg, ref) == IF ref \in reg THEN TableValue(ref) ELSE NilValue

\* PushInstanceData's test before the lookup: the AI is reloaded when the
\* map has no instance data.
NeedsReloadNever(map) == FALSE

NeedsReload(map) == ~HasInstanceData(map)

\* ElunaInstanceAI::Reload: a new table is created and made the instance
\* data of the AI's map (CreateInstanceData), which had none.
ElunaInstanceAIReload(table, id, ref) == table \cup { << id, ref >> }

\* unordered_map::operator[]: the value stored under the id; a missing id
\* is inserted with the value 0.
RefLookup(table, id) ==
    IF \E p \in table : p[1] = id
    THEN [table |-> table, ref |-> (CHOOSE p \in table : p[1] = id)[2]]
    ELSE [table |-> table \cup { << id, 0 >> }, ref |-> 0]

\* A hook of the instance AI pushes the instance data of its map.
PushInstanceData ==
    /\ HostControl /\ L # NULL
    /\ Len(lstack) < MaxPushed /\ push_counter < MaxPushed
    /\ \E map \in Maps, incrementCounter \in BOOLEAN :
          LET table == IF map.instanceable THEN instanceDataRefs ELSE continentDataRefs
              id == IF map.instanceable THEN map.instanceId ELSE map.id
              reloads == IF NeedsReload(map) THEN 1 ELSE 0
              ref == LuaRef(registry)
              table1 == IF reloads = 1 THEN ElunaInstanceAIReload(table, id, ref) ELSE table
              reg2 == IF reloads = 1 THEN registry \cup {ref} ELSE registry
              got == RefLookup(table1, id)
          IN  /\ registry' = reg2
              /\ IF map.instanceable
                 THEN instanceDataRefs' = got.table /\ UNCHANGED continentDataRefs
                 ELSE continentDataRefs' = got.table /\ UNCHANGED instanceDataRefs
              /\ lstack' = Append(lstack, lua_rawgeti(reg2, got.ref))
              /\ push_counter' = IF incrementCounter THEN push_counter + 1 ELSE push_counter
              /\ last' = [op |-> "pushdata", id |-> id, map |-> map, reloads |-> reloads,
                          counted |-> incrementCounter]
    /\ UNCHANGED << build, boundMapId, scripts, cacheState, L, reload, event_level,
                    callstackid, bindingMaps, maxBindingID, issued, timedEvents,
                    queries, handles, cancels, stack, pre >>

(***************************************************************************)
(* Argument checks (LuaEngine.cpp 478-578).  A numeric argument reaches    *)
(* the check as a double.  The values the model draws are the points of    *)
(* NumberLine, integer-valued doubles around the limits of the integer     *)
(* types, listed in increasing order; a value is its position in the       *)
(* list, so that < and > on positions are < and > on the values.           *)
(***************************************************************************)
NumberLine ==
    << "-2^64", "-2^63-2048", "-2^63", "-2^31-1", "-2^31", "-32769", "-32768",
       "-129", "-128", "-1", "0", "127", "128", "255", "256", "32767", "32768",
       "65535", "65536", "2^31-1", "2^31", "2^32-1", "2^32", "2^63-1024", "2^63",
       "2^64-2048", "2^64" >>

Numbers == DOMAIN NumberLine

Num(name) == CHOOSE i \in Numbers : NumberLine[i] = name

\* The limits of <climits> the checks are called with.
SCHAR_MIN == Num("-128")
SCHAR_MAX == Num("127")
UCHAR_MAX == Num("255")
SHRT_MIN == Num("-32768")
SHRT_MAX == Num("32767")
USHRT_MAX == Num("65535")
INT_MIN == Num("-2^31")
INT_MAX == Num("2^31-1")
UINT_MAX == Num("2^32-1")

\* The doubles a long long can hold: from -2^63 up to the last double below
\* 2^63.
LongLongValues == { v \in Numbers : Num("-2^63") <= v /\ v <= Num("2^63-1024") }

IntegerTypes ==
    { "signed char", "unsigned char", "short", "unsigned short", "int",
      "unsigned int", "long long", "unsigned long long", "long", "unsigned long" }

Returned(v) == [ok |-> TRUE, ret |-> v, err |-> "", bound |-> 0]

\* luaL_argerror with a message that names the bound.
ArgError(msg, bound) == [ok |-> FALSE, ret |-> 0, err |-> msg, bound |-> bound]

CheckIntegerRange(value, min, max) ==
    IF value > max THEN ArgError("value must be less than or equal to", max)
    ELSE IF value < min THEN ArgError("value must be greater than or equal to", min)
    ELSE Returned(value)

CheckUnsignedRange(value, max) ==
    IF value < Num("0") THEN ArgError("value must be greater than or equal to", Num("0"))
    ELSE IF value > max THEN ArgError("value must be less than or equal to", max)
    ELSE Returned(value)

\* Eluna::CHECKVAL<T> for a numeric argument: the set of its possible
\* outcomes.  static_cast<long long> of a double outside the range of long
\* long is undefined: it may produce any long long.
RECURSIVE CHECKVAL(_, _)
CHECKVAL(T, value) ==
    CASE T = "signed char" -> { CheckIntegerRange(value, SCHAR_MIN, SCHAR_MAX) }
      [] T = "unsigned char" -> { CheckUnsignedRange(value, UCHAR_MAX) }
      [] T = "short" -> { CheckIntegerRange(value, SHRT_MIN, SHRT_MAX) }
      [] T = "unsigned short" -> { CheckUnsignedRange(value, USHRT_MAX) }
      [] T = "int" -> { CheckIntegerRange(value, INT_MIN, INT_MAX) }
      [] T = "unsigned int" -> { CheckUnsignedRange(value, UINT_MAX) }
      [] T = "long long" ->
            IF value \in LongLongValues THEN { Returned(value) }
            ELSE { Returned(w) : w \in LongLongValues }
      [] T = "unsigned long long" -> CHECKVAL("unsigned int", value)
      [] T = "long" -> CHECKVAL("long long", value)
      [] T = "unsigned long" -> CHECKVAL("unsigned long long", value)

\* A method called by a script checks one numeric argument.
ScriptCheckValue ==
    /\ InCall
    /\ \E T \in IntegerTypes, value \in Numbers : \E r \in CHECKVAL(T, value) :
          last' = [op |-> "checkval", id |-> 0, type |-> T, value |-> value, out |-> r]
    /\ UNCHANGED << build, boundMapId, scripts, cacheState, L, reload, event_level,
                    push_counter, callstackid, bindingMaps, maxBindingID, issued,
                    registry, instanceDataRefs, continentDataRefs, timedEvents,
                    queries, handles, cancels, lstack, stack, pre >>

(***************************************************************************)
(* Object checks: CHECKOBJ (585-618, LuaEngine.h 335-338), CHECKTYPE       *)
(* (620-642)                                                               *)
(***************************************************************************)
\* A userdata wrapper of type T.
ObjValue(T) == [t |-> T, v |-> 0]

\* The wrapper types scripts may hand to a method; Aura is in no chain.
WrapperTypes == { "Player", "Creature", "Unit", "GameObject", "Corpse",
                  "WorldObject", "Item", "Object", "Aura" }

\* The value at narg: light userdata, a wrapper, or no userdata at all.
LightUserdata == [t |-> "lightuserdata", v |-> 0]

CheckArgs == { LightUserdata, NilValue } \cup { ObjValue(T) : T \in WrapperTypes }

\* One attempt: the type name tried, the error flag it was given, whether
\* it raised (luaL_argerror does not return), and the object found.
Attempt(tname, error, raised, obj) ==
    [obj |-> obj, raised |-> raised,
     tried |-> << [tname |-> tname, error |-> error, raised |-> raised] >>]

CHECKTYPE(arg, tname, error) ==
    IF arg = LightUserdata THEN Attempt(tname, error, error, NULL)
    ELSE IF arg.t \notin WrapperTypes \/ arg.t # tname
         THEN Attempt(tname, error, error, NULL)
         ELSE Attempt(tname, error, FALSE, arg.t)

\* ElunaTemplate<T>::Check: CHECKTYPE with the name of T.
ElunaTemplateCheck(arg, T, error) == CHECKTYPE(arg, T, error)

\* obj = first; if (!obj) obj = second: the second attempt is made when
\* the first returned NULL.
OrElse(first, second) ==
    IF first.obj # NULL \/ first.raised THEN first
    ELSE [second EXCEPT !.tried = first.tried \o @]

CHECKOBJUnit(arg, error) ==
    OrElse(OrElse(ElunaTemplateCheck(arg, "Player", FALSE),
                  ElunaTemplateCheck(arg, "Creature", FALSE)),
           ElunaTemplateCheck(arg, "Unit", error))

CHECKOBJWorldObjectPassesError(arg, error) ==
    OrElse(OrElse(OrElse(CHECKOBJUnit(arg, error),
                         ElunaTemplateCheck(arg, "GameObject", FALSE)),
                  ElunaTemplateCheck(arg, "Corpse", FALSE)),
           ElunaTemplateCheck(arg, "WorldObject", error))

CHECKOBJWorldObject(arg, error) ==
    OrElse(OrElse(OrElse(CHECKOBJUnit(arg, FALSE),
                         ElunaTemplateCheck(arg, "GameObject", FALSE)),
                  ElunaTemplateCheck(arg, "Corpse", FALSE)),
           ElunaTemplateCheck(arg, "WorldObject", error))

CHECKOBJObject(arg, error) ==
    OrElse(OrElse(CHECKOBJWorldObject(arg, FALSE),
                  ElunaTemplateCheck(arg, "Item", FALSE)),
           ElunaTemplateCheck(arg, "Object", error))

\* The types with a chain of their own.
ChainTypes == { "Unit", "WorldObject", "Object" }

\* CHECKOBJ<T>(narg, error)
CHECKOBJ(T, arg, error) ==
    CASE T = "Unit" -> CHECKOBJUnit(arg, error)
      [] T = "WorldObject" -> CHECKOBJWorldObject(arg, error)
      [] T = "Object" -> CHECKOBJObject(arg, error)
      [] OTHER -> ElunaTemplateCheck(arg, T, error)

\* A method called by a script checks an object argument.
ScriptCheckObject ==
    /\ InCall
    /\ \E T \in WrapperTypes, arg \in CheckArgs, error \in BOOLEAN :
          last' = [op |-> "checkobj", id |-> 0, type |-> T, arg |-> arg,
                   error |-> error, out |-> CHECKOBJ(T, arg, error)]
    /\ UNCHANGED << build, boundMapId, scripts, cacheState, L, reload, event_level,
                    push_counter, callstackid, bindingMaps, maxBindingID, issued,
                    registry, instanceDataRefs, continentDataRefs, timedEvents,
                    queries, handles, cancels, lstack, stack, pre >>

(***************************************************************************)
(* Eluna::Push of host objects (395-471)                                   *)
(***************************************************************************)
\* The type tags GetTypeId() may return.
TypeIds == { "TYPEID_OBJECT", "TYPEID_ITEM", "TYPEID_CONTAINER", "TYPEID_UNIT",
             "TYPEID_PLAYER", "TYPEID_GAMEOBJECT", "TYPEID_DYNAMICOBJECT",
             "TYPEID_CORPSE" }

\* A host object reference: absent, or an object with its type tag.
ObjectRefs == {NULL} \cup TypeIds

\* The static types with a Push overload that switches on the tag.
StaticTypes == { "Unit", "WorldObject", "Object" }

\* Eluna::Push(): nil.
PushNil(ls) == Append(ls, NilValue)

\* Push<T>(T const* ptr): ElunaTemplate<T>::Push pushes the wrapper of T,
\* or nil for a null pointer.
ElunaTemplatePush(ls, T, ptr) ==
    IF ptr = NULL THEN Append(ls, NilValue) ELSE Append(ls, ObjValue(T))

\* obj->ToCreature() and the like: the object when its tag is `tag`.
ToSubtype(obj, tag) == IF obj = tag THEN obj ELSE NULL

PushUnit(ls, unit) ==
    IF unit = NULL THEN PushNil(ls)
    ELSE CASE unit = "TYPEID_UNIT" ->
                  ElunaTemplatePush(ls, "Creature", ToSubtype(unit, "TYPEID_UNIT"))
           [] unit = "TYPEID_PLAYER" ->
                  ElunaTemplatePush(ls, "Player", ToSubtype(unit, "TYPEID_PLAYER"))
           [] OTHER -> ElunaTemplatePush(ls, "Unit", unit)

PushWorldObject(ls, obj) ==
    IF obj = NULL THEN PushNil(ls)
    ELSE CASE obj = "TYPEID_UNIT" ->
                  ElunaTemplatePush(ls, "Creature", ToSubtype(obj, "TYPEID_UNIT"))
           [] obj = "TYPEID_PLAYER" ->
                  ElunaTemplatePush(ls, "Player", ToSubtype(obj, "TYPEID_PLAYER"))
           [] obj = "TYPEID_GAMEOBJECT" ->
                  ElunaTemplatePush(ls, "GameObject", ToSubtype(obj, "TYPEID_GAMEOBJECT"))
           [] obj = "TYPEID_CORPSE" ->
                  ElunaTemplatePush(ls, "Corpse", ToSubtype(obj, "TYPEID_CORPSE"))
           [] OTHER -> ElunaTemplatePush(ls, "WorldObject", obj)

PushObjectNoSwitch(ls, obj) == ElunaTemplatePush(ls, "Object", obj)

PushObject(ls, obj) ==
    IF obj = NULL THEN PushNil(ls)
    ELSE CASE obj = "TYPEID_UNIT" ->
                  ElunaTemplatePush(ls, "Creature", ToSubtype(obj, "TYPEID_UNIT"))
           [] obj = "TYPEID_PLAYER" ->
                  ElunaTemplatePush(ls, "Player", ToSubtype(obj, "TYPEID_PLAYER"))
           [] obj = "TYPEID_GAMEOBJECT" ->
                  ElunaTemplatePush(ls, "GameObject", ToSubtype(obj, "TYPEID_GAMEOBJECT"))
           [] obj = "TYPEID_CORPSE" ->
                  ElunaTemplatePush(ls, "Corpse", ToSubtype(obj, "TYPEID_CORPSE"))
           [] OTHER -> ElunaTemplatePush(ls, "Object", obj)

\* The overload the compiler picks for a pointer of static type T.
PushAs(ls, T, ptr) ==
    CASE T = "Unit" -> PushUnit(ls, ptr)
      [] T = "WorldObject" -> PushWorldObject(ls, ptr)
      [] T = "Object" -> PushObject(ls, ptr)

\* HookPush(T const* ptr) (LuaEngine.h 243-244): a hook pushes a host
\* object as an argument.
HookPushObject ==
    /\ HostControl /\ L # NULL
    /\ Len(lstack) < MaxPushed /\ push_counter < MaxPushed
    /\ \E T \in StaticTypes, ptr \in ObjectRefs :
          /\ lstack' = PushAs(lstack, T, ptr)
          /\ last' = [op |-> "pushobj", id |-> 0, static |-> T, ptr |-> ptr,
                      depth |-> Len(lstack)]
    /\ push_counter' = push_counter + 1
    /\ UNCHANGED << build, boundMapId, scripts, cacheState, L, reload, event_level,
                    callstackid, bindingMaps, maxBindingID, issued,
                    registry, instanceDataRefs, continentDataRefs, timedEvents,
                    queries, handles, cancels, stack, pre >>

\* What a called function may return: up to MaxRes + 1 values.
FunctionResults ==
    UNION { [1..n -> { BoolValue(TRUE), ResValue }] : n \in 0..(MaxRes + 1) }

\* Values the caller holds on the stack below the function.
MaxHeld == 1

\* The host has a function called with params through ExecuteCall (as the
\* event manager and the query callbacks do) and drops the results.
HostExecuteCall ==
    /\ HostControl /\ L # NULL
    /\ \E params \in 0..MaxParams, res \in 0..MaxRes, usetrace \in BOOLEAN,
          raised \in BOOLEAN, returned \in FunctionResults, held \in 0..MaxHeld :
          LET before == lstack \o [i \in 1..held |-> EvValue(i)]
                               \o << FnValue(0) >> \o [i \in 1..params |-> ArgValue(i)]
          IN  /\ raised => returned = << >>
              /\ last' = [op |-> "execute", id |-> 0, before |-> before,
                          params |-> params, res |-> res, usetrace |-> usetrace,
                          raised |-> raised, returned |-> returned,
                          after |-> ExecuteCall(before, params, res, usetrace,
                                                raised, returned)]
    /\ UNCHANGED << build, boundMapId, scripts, cacheState, L, reload, event_level,
                    push_counter, callstackid, bindingMaps, maxBindingID, issued,
                    registry, instanceDataRefs, continentDataRefs, timedEvents,
                    queries, handles, cancels, lstack, stack, pre >>

(***************************************************************************)
(* Instance events: registration under REGTYPE_MAP / REGTYPE_INSTANCE,     *)
(* the instance hooks, and Eluna::FreeInstanceId (1020-1043).              *)
(***************************************************************************)
\* Instance ids the host frees.
InstanceIds == {7, 8}

\* What scripts register for instances: the entry is an instance id under
\* REGTYPE_INSTANCE and a map id under REGTYPE_MAP.
InstanceRegInputs ==
    { [regtype |-> "REGTYPE_INSTANCE", entry |-> 7, guid |-> 0, instanceId |-> 0,
       event_id |-> e] : e \in 0..(INSTANCE_EVENT_COUNT - 1) }
    \cup
    { [regtype |-> "REGTYPE_INSTANCE", entry |-> 8, guid |-> 0, instanceId |-> 0,
       event_id |-> 1],
      [regtype |-> "REGTYPE_MAP", entry |-> 7, guid |-> 0, instanceId |-> 0,
       event_id |-> 1],
      [regtype |-> "REGTYPE_MAP", entry |-> 1, guid |-> 0, instanceId |-> 0,
       event_id |-> 1] }

ScriptRegisterInstance ==
    /\ InCall /\ maxBindingID < MaxBindingId
    /\ \E in \in InstanceRegInputs, shots \in 0..MaxShots : RegisterCall(in, shots, Quiet)

\* The instance events the host raises for instance 7.
InstanceRaiseKeys ==
    { [regtype |-> "REGTYPE_INSTANCE", key |-> EntryKey(e, 7)] :
         e \in 1..(INSTANCE_EVENT_COUNT - 1) }

Raised(r, nargs) ==
    [op |-> "raise", id |-> 0, regtype |-> r.regtype, key |-> r.key, nargs |-> nargs]

HostRaiseInstance ==
    /\ HostControl /\ L # NULL
    /\ Trackable \/ callstackid < MaxCallstackId
    /\ \E r \in InstanceRaiseKeys, nargs \in 0..MaxArgs : RaiseAs(r, nargs, Raised(r, nargs))

ScriptRaiseInstance ==
    /\ InCall /\ event_level < MaxDepth
    /\ \E r \in InstanceRaiseKeys, nargs \in 0..MaxArgs : RaiseAs(r, nargs, Raised(r, nargs))

\* The first event id of FreeInstanceId's loop.
FreeInstanceIdFirstEvent == 1

\* The loop of FreeInstanceId over the instance event ids: both stores are
\* cleared of the key (event id, instanceId).
RECURSIVE FreeInstanceIdLoop(_, _, _)
FreeInstanceIdLoop(maps, i, instanceId) ==
    IF i >= INSTANCE_EVENT_COUNT THEN maps
    ELSE LET key == EntryKey(i, instanceId)
             m1 == IF HasBindingsFor(maps["REGTYPE_MAP"], key)
                   THEN [maps EXCEPT !["REGTYPE_MAP"] = Clear(@, key)]
                   ELSE maps
             m2 == IF HasBindingsFor(m1["REGTYPE_INSTANCE"], key)
                   THEN [m1 EXCEPT !["REGTYPE_INSTANCE"] = Clear(@, key)]
                   ELSE m1
         IN  FreeInstanceIdLoop(m2, i + 1, instanceId)

\* The instance data record is erased inside the loop, by its first turn.
FreeInstanceIdData(refs, instanceId) ==
    IF FreeInstanceIdFirstEvent < INSTANCE_EVENT_COUNT
    THEN { p \in refs : p[1] # instanceId }
    ELSE refs

FreeInstanceId ==
    /\ HostControl /\ L # NULL
    /\ \E instanceId \in InstanceIds :
          LET maps2 == FreeInstanceIdLoop(bindingMaps, FreeInstanceIdFirstEvent, instanceId)
              inst2 == FreeInstanceIdData(instanceDataRefs, instanceId)
              reg2 == ReleaseGone(registry, maps2) \ { p[2] : p \in instanceDataRefs \ inst2 }
          IN  /\ bindingMaps' = maps2
              /\ instanceDataRefs' = inst2
              /\ registry' = reg2
              /\ pre' = PreNext(reg2, inst2 \cup continentDataRefs)
              /\ last' = Did("free", instanceId)
    /\ UNCHANGED << build, boundMapId, scripts, cacheState, L, reload, event_level,
                    push_counter, callstackid, maxBindingID, issued, continentDataRefs,
                    timedEvents, queries, handles, cancels, lstack, stack >>

(***************************************************************************)
(* Eluna::UpdateEluna (871-883), _ReloadEluna (32-52), CloseLua (75-88),   *)
(* OpenLua (114-155)                                                       *)
(***************************************************************************)
\* The condition under which UpdateEluna calls _ReloadEluna.
ReloadDueIgnoresCache(flag, ready, pending) ==
    flag /\ (Trinity => pending = 0)

ReloadDueIgnoresPending(flag, ready, pending) ==
    flag /\ ready

ReloadDue(flag, ready, pending) ==
    flag /\ ready /\ (Trinity => pending = 0)

UpdateFrame(pc) == [kind |-> "update", running |-> FALSE, pc |-> pc]

\* Where UpdateEluna goes on after its reload step, reloaded or not:
\* eventMgr->UpdateProcessors(diff).
AfterReloadStepSkipsTimers(reloaded) == IF reloaded THEN "drain" ELSE "timers"

AfterReloadStep(reloaded) == "timers"

\* UpdateEluna up to the first script callback: either _ReloadEluna starts
\* (timed events erased, queries cancelled, CloseLua's OnLuaStateClose), or
\* the reload step is skipped.
UpdateEluna ==
    /\ HostControl /\ L # NULL
    /\ Trackable \/ callstackid + 2 <= MaxCallstackId
    /\ IF ReloadDue(reload, cacheState, queries)
       THEN LET key == EventKey(ELUNA_EVENT_ON_LUA_STATE_CLOSE)
            IN  /\ timedEvents' = 0
                /\ queries' = IF Trinity THEN 0 ELSE queries
                /\ stack' = HookControl(<< UpdateFrame("close") >>, "REGTYPE_SERVER", key, 0)
                /\ lstack' = HookLStack(lstack, "REGTYPE_SERVER", key, 0)
                /\ push_counter' = HookPushCounter("REGTYPE_SERVER", key)
                /\ pre' = [ids |-> AllIds, refs |-> registry, inst |-> InstRecords,
                           ninst |-> Cardinality(InstRecords), active |-> TRUE]
                /\ last' = Did("reload_begin", 0)
       ELSE /\ stack' = << UpdateFrame(AfterReloadStep(FALSE)) >>
            /\ last' = Quiet
            /\ UNCHANGED << timedEvents, queries, lstack, push_counter, pre >>
    /\ UNCHANGED << build, boundMapId, scripts, cacheState, L, reload, event_level,
                    callstackid, bindingMaps, maxBindingID, issued, registry,
                    instanceDataRefs, continentDataRefs, handles, cancels >>

\* CloseLua: the instance data maps are cleared.
CloseLuaKeepsData(refs) == refs

CloseLuaData(refs) == {}

\* The statements of CloseLua after OnLuaStateClose() has returned, each
\* with what it leaves: DestroyBindStores(), lua_close(L) and L = NULL,
\* the two clear() calls.
CloseLuaStepsCloseFirst(maps, l, inst, cont) ==
    LET s0 == [bindingMaps |-> maps, L |-> l, instanceDataRefs |-> inst,
               continentDataRefs |-> cont]
        s1 == [s0 EXCEPT !.L = NULL]
        s2 == [s1 EXCEPT !.bindingMaps = DestroyBindStores(@)]
        s3 == [s2 EXCEPT !.instanceDataRefs = CloseLuaData(@),
                         !.continentDataRefs = CloseLuaData(@)]
    IN  << s0, s1, s2, s3 >>

CloseLuaSteps(maps, l, inst, cont) ==
    LET s0 == [bindingMaps |-> maps, L |-> l, instanceDataRefs |-> inst,
               continentDataRefs |-> cont]
        s1 == [s0 EXCEPT !.bindingMaps = DestroyBindStores(@)]
        s2 == [s1 EXCEPT !.L = NULL]
        s3 == [s2 EXCEPT !.instanceDataRefs = CloseLuaData(@),
                         !.continentDataRefs = CloseLuaData(@)]
    IN  << s0, s1, s2, s3 >>

\* CloseLua after OnLuaStateClose: DestroyBindStores, lua_close, L = NULL,
\* both instance data maps cleared.
CloseLua ==
    /\ stack # << >> /\ Top.kind = "update" /\ Top.pc = "close"
    /\ LET steps == CloseLuaSteps(bindingMaps, L, instanceDataRefs, continentDataRefs)
           done == steps[Len(steps)]
       IN  /\ bindingMaps' = done.bindingMaps
           /\ L' = done.L
           /\ instanceDataRefs' = done.instanceDataRefs
           /\ continentDataRefs' = done.continentDataRefs
           /\ last' = [op |-> "close", id |-> 0, steps |-> steps]
    /\ maxBindingID' = MaxIdAfterDestroy(maxBindingID)
    /\ registry' = {}
    /\ lstack' = << >>
    /\ handles' = {}
    /\ cancels' = {}
    /\ pre' = PreNext({}, instanceDataRefs' \cup continentDataRefs')
    /\ stack' = ReplaceTop(stack, UpdateFrame("open"))
    /\ UNCHANGED << build, boundMapId, scripts, cacheState, reload, event_level,
                    push_counter, callstackid, issued, timedEvents, queries >>

\* OpenLua (new state, CreateBindStores), then RunScripts starts.
OpenLua ==
    /\ stack # << >> /\ Top.kind = "update" /\ Top.pc = "open"
    /\ L' = "open"
    /\ bindingMaps' = CreateBindStores(bindingMaps)
    /\ lstack' = Append(lstack, FnValue(0))
    /\ stack' = Append(ReplaceTop(stack, UpdateFrame("clear")), RunFrame)
    /\ last' = Quiet
    /\ UNCHANGED << build, boundMapId, scripts, cacheState, reload, event_level,
                    push_counter, callstackid, maxBindingID, issued, registry,
                    instanceDataRefs, continentDataRefs, timedEvents, queries,
                    handles, cancels, pre >>

\* _ReloadEluna's last statement: reload = false.
ReloadClear ==
    /\ stack # << >> /\ Top.kind = "update" /\ Top.pc = "clear"
    /\ reload' = FALSE
    /\ stack' = ReplaceTop(stack, UpdateFrame(AfterReloadStep(TRUE)))
    /\ last' = Quiet
    /\ UNCHANGED << build, boundMapId, scripts, cacheState, L, event_level, push_counter,
                    callstackid, bindingMaps, maxBindingID, issued, registry,
                    instanceDataRefs, continentDataRefs, timedEvents, queries,
                    handles, cancels, lstack, pre >>

CallFrame == [kind |-> "call", running |-> TRUE]

\* eventMgr->UpdateProcessors(diff): a due timed event's function is called
\* through ExecuteCall.
UpdateFireTimed ==
    /\ stack # << >> /\ Top.kind = "update" /\ Top.pc = "timers"
    /\ timedEvents > 0
    /\ timedEvents' = timedEvents - 1
    /\ event_level' = event_level + 1
    /\ stack' = Append(stack, CallFrame)
    /\ last' = Quiet
    /\ UNCHANGED << build, boundMapId, scripts, cacheState, L, reload, push_counter,
                    callstackid, bindingMaps, maxBindingID, issued, registry,
                    instanceDataRefs, continentDataRefs, queries, handles,
                    cancels, lstack, pre >>

UpdateTimersDone ==
    /\ stack # << >> /\ Top.kind = "update" /\ Top.pc = "timers"
    /\ stack' = ReplaceTop(stack, UpdateFrame("drain"))
    /\ last' = Quiet
    /\ UNCHANGED << build, boundMapId, scripts, cacheState, L, reload, event_level,
                    push_counter, callstackid, bindingMaps, maxBindingID, issued, registry,
                    instanceDataRefs, continentDataRefs, timedEvents, queries,
                    handles, cancels, lstack, pre >>

\* GetQueryProcessor().ProcessReadyCallbacks() (ELUNA_TRINITY): a completed
\* query's callback is called.
UpdateDeliver ==
    /\ stack # << >> /\ Top.kind = "update" /\ Top.pc = "drain"
    /\ Trinity /\ queries > 0
    /\ queries' = queries - 1
    /\ event_level' = event_level + 1
    /\ stack' = Append(stack, CallFrame)
    /\ last' = Quiet
    /\ UNCHANGED << build, boundMapId, scripts, cacheState, L, reload, push_counter,
                    callstackid, bindingMaps, maxBindingID, issued, registry,
                    instanceDataRefs, continentDataRefs, timedEvents, handles,
                    cancels, lstack, pre >>

\* UpdateEluna returns to the host.
UpdateDone ==
    /\ stack # << >> /\ Top.kind = "update" /\ Top.pc = "drain"
    /\ stack' = Pop(stack)
    /\ pre' = NoPre
    /\ last' = Quiet
    /\ UNCHANGED << build, boundMapId, scripts, cacheState, L, reload, event_level,
                    push_counter, callstackid, bindingMaps, maxBindingID, issued, registry,
                    instanceDataRefs, continentDataRefs, timedEvents, queries,
                    handles, cancels, lstack >>

(***************************************************************************)
(* Groups of actions.                                                      *)
(***************************************************************************)
\* The host's side of the life cycle: construction, script loading, Update.
Lifecycle ==
    \/ Constructor
    \/ CacheChange
    \/ RunScriptsStep
    \/ RunScriptsEnd
    \/ UpdateEluna
    \/ CloseLua
    \/ OpenLua
    \/ ReloadClear
    \/ UpdateTimersDone
    \/ UpdateDone

\* The callbacks of a hook dispatch (CallAllFunctions), and registration.
Dispatch ==
    \/ DispatchCall
    \/ CleanUpStack
    \/ ScriptReturn
    \/ ScriptRegister

Next ==
    \/ Lifecycle
    \/ Dispatch
    \/ HostRaise
    \/ ScriptRaise
    \/ ScriptCancel
    \/ ReloadEluna
    \/ ScriptCreateHandle
    \/ ScriptQueryAsync
    \/ ScriptCreateTimedEvent
    \/ CreateInstanceData
    \/ UpdateFireTimed
    \/ UpdateDeliver
    \/ ScriptRegisterInstance
    \/ HostRaiseInstance
    \/ ScriptRaiseInstance
    \/ FreeInstanceId
    \/ ScriptRegisterAny
    \/ ScriptCheckValue
    \/ PushInstanceData
    \/ HostRaiseBool
    \/ HostExecuteCall
    \/ HookPushObject
    \/ ScriptCheckObject
    \/ ScriptRegisterRejected
    \/ OnUpdateAI
    \/ OnTriggerCheck
    \/ OnActionExecute

Spec == Init /\ [][Next]_vars

(***************************************************************************)
(* The binding stores: registration, cancellation, nested raises, reload.  *)
(***************************************************************************)
NextBinding ==
    \/ Lifecycle
    \/ Dispatch
    \/ HostRaise
    \/ ScriptRaise
    \/ ScriptCancel
    \/ ReloadEluna

\* The stores behave alike in every build; in this one no bound on the
\* callstack id limits the number of raises.
InitBinding == Init /\ build = "trinity"

SpecBinding == InitBinding /\ [][NextBinding]_vars

(***************************************************************************)
(* Object handles and the callstack id, which exist only in the build      *)
(* without TRACKABLE_PTR_NAMESPACE.                                        *)
(***************************************************************************)
InitEpoch == Init /\ ~Trackable

NextEpoch ==
    \/ Lifecycle
    \/ Dispatch
    \/ HostRaise
    \/ ScriptRaise
    \/ ReloadEluna
    \/ ScriptCreateHandle
    \/ ScriptCreateTimedEvent
    \/ UpdateFireTimed

SpecEpoch == InitEpoch /\ [][NextEpoch]_vars

(***************************************************************************)
(* Reload: requests, asynchronous work and timed events.                   *)
(***************************************************************************)
NextReload ==
    \/ Lifecycle
    \/ Dispatch
    \/ ReloadEluna
    \/ ScriptQueryAsync
    \/ ScriptCreateTimedEvent
    \/ UpdateFireTimed
    \/ UpdateDeliver

SpecReload == Init /\ [][NextReload]_vars

(***************************************************************************)
(* What a reload leaves behind: bindings, instance data, references.       *)
(***************************************************************************)
NextData ==
    \/ Lifecycle
    \/ Dispatch
    \/ ReloadEluna
    \/ CreateInstanceData

InitData == Init /\ build = "cmangos"

SpecData == InitData /\ [][NextData]_vars

(***************************************************************************)
(* The instance slice: instance registrations, the instance hooks,         *)
(* cancellation, the freeing of an instance id and the reload.             *)
(***************************************************************************)
NextInstance ==
    \/ Constructor
    \/ RunScriptsStep
    \/ RunScriptsEnd
    \/ UpdateEluna
    \/ CloseLua
    \/ OpenLua
    \/ ReloadClear
    \/ UpdateTimersDone
    \/ UpdateDone
    \/ DispatchCall
    \/ CleanUpStack
    \/ ScriptReturn
    \/ ScriptRegisterInstance
    \/ ScriptCancel
    \/ ReloadEluna
    \/ HostRaiseInstance
    \/ FreeInstanceId

InitInstance == Init /\ build = "cmangos" /\ cacheState

SpecInstance == InitInstance /\ [][NextInstance]_vars

(***************************************************************************)
(* The instance data slice: instance registrations, the instance data      *)
(* records and the freeing of an instance id, in one lifetime of the       *)
(* interpreter.                                                            *)
(***************************************************************************)
NextFree ==
    \/ Constructor
    \/ RunScriptsStep
    \/ RunScriptsEnd
    \/ ScriptReturn
    \/ ScriptRegisterInstance
    \/ CreateInstanceData
    \/ FreeInstanceId

SpecFree == InitInstance /\ [][NextFree]_vars

(***************************************************************************)
(* The hook slice: instance hooks raised by the host and from inside       *)
(* callbacks, registration and cancellation, in a build that keeps the     *)
(* callstack id.                                                           *)
(***************************************************************************)
NextHook ==
    \/ Constructor
    \/ RunScriptsStep
    \/ RunScriptsEnd
    \/ DispatchCall
    \/ CleanUpStack
    \/ ScriptReturn
    \/ ScriptRegisterInstance
    \/ ScriptCancel
    \/ HostRaiseInstance
    \/ ScriptRaiseInstance

InitHook == Init /\ build = "other" /\ cacheState

SpecHook == InitHook /\ [][NextHook]_vars

(***************************************************************************)
(* The registration slice: scripts call Register with inputs of every      *)
(* shape while they are loaded.                                            *)
(***************************************************************************)
NextRegister ==
    \/ Constructor
    \/ RunScriptsStep
    \/ RunScriptsEnd
    \/ ScriptReturn
    \/ ScriptRegisterAny

InitRegister == Init /\ build = "trinity" /\ cacheState

SpecRegister == InitRegister /\ [][NextRegister]_vars

(***************************************************************************)
(* The reference slice: registrations of every shape, accepted and         *)
(* rejected, and every way a registration ends: cancel, auto-removal,      *)
(* FreeInstanceId's Clear, and reload.                                     *)
(***************************************************************************)
NextRefs ==
    \/ NextInstance
    \/ ScriptRegisterRejected

SpecRefs == InitInstance /\ [][NextRefs]_vars

(***************************************************************************)
(* The playerbot hook slice: the host raises the playerbot AI events.      *)
(***************************************************************************)
NextPlayerbot ==
    \/ Constructor
    \/ RunScriptsStep
    \/ RunScriptsEnd
    \/ ScriptReturn
    \/ OnUpdateAI
    \/ OnTriggerCheck
    \/ OnActionExecute

SpecPlayerbot == Init /\ [][NextPlayerbot]_vars

(***************************************************************************)
(* The argument check slice: methods called by scripts while they are      *)
(* loaded check numeric arguments of every integer type.                   *)
(***************************************************************************)
NextCheck ==
    \/ Constructor
    \/ RunScriptsStep
    \/ RunScriptsEnd
    \/ ScriptReturn
    \/ ScriptCheckValue

InitCheck == Init /\ build = "trinity" /\ cacheState

SpecCheck == InitCheck /\ [][NextCheck]_vars

(***************************************************************************)
(* The boolean hook slice: scripts register and cancel callbacks while     *)
(* they are loaded, and the host raises hooks that return a boolean.       *)
(***************************************************************************)
NextBool ==
    \/ Constructor
    \/ RunScriptsStep
    \/ RunScriptsEnd
    \/ DispatchCall
    \/ CleanUpStack
    \/ ScriptReturn
    \/ ScriptRegister
    \/ ScriptCancel
    \/ HostRaiseBool

InitBool == Init /\ build = "trinity" /\ cacheState

SpecBool == InitBool /\ [][NextBool]_vars

(***************************************************************************)
(* The call slice: functions are called through ExecuteCall with every     *)
(* number of params and results, with and without the traceback handler.   *)
(***************************************************************************)
NextCall ==
    \/ Constructor
    \/ RunScriptsStep
    \/ RunScriptsEnd
    \/ ScriptReturn
    \/ HostExecuteCall

InitCall == Init /\ build = "trinity" /\ cacheState

SpecCall == InitCall /\ [][NextCall]_vars

(***************************************************************************)
(* The object check slice: methods called by scripts while they are loaded *)
(* check object arguments of every wrapper type.                           *)
(***************************************************************************)
NextCheckObject ==
    \/ Constructor
    \/ RunScriptsStep
    \/ RunScriptsEnd
    \/ ScriptReturn
    \/ ScriptCheckObject

InitCheckObject == Init /\ build = "trinity" /\ cacheState

SpecCheckObject == InitCheckObject /\ [][NextCheckObject]_vars

(***************************************************************************)
(* The object push slice: hooks push host objects of every static type and *)
(* every type tag.                                                         *)
(***************************************************************************)
NextObject ==
    \/ Constructor
    \/ RunScriptsStep
    \/ RunScriptsEnd
    \/ ScriptReturn
    \/ HookPushObject

InitObject == Init /\ build = "trinity" /\ cacheState

SpecObject == InitObject /\ [][NextObject]_vars

(***************************************************************************)
(* The instance data lookup slice: instance data is created, pushed by     *)
(* hooks, freed, and lost in reloads.                                      *)
(***************************************************************************)
NextPush ==
    \/ Constructor
    \/ RunScriptsStep
    \/ RunScriptsEnd
    \/ ScriptReturn
    \/ UpdateEluna
    \/ CloseLua
    \/ OpenLua
    \/ ReloadClear
    \/ UpdateTimersDone
    \/ UpdateDone
    \/ ReloadEluna
    \/ CreateInstanceData
    \/ FreeInstanceId
    \/ PushInstanceData

SpecPush == InitInstance /\ [][NextPush]_vars

(***************************************************************************)
(* The script loading slice: a batch with a script tagged for another map, *)
(* a script of the same name tagged for this map, a repeated name and      *)
(* scripts that fail, loaded by an environment bound to map 1 or to no map, *)
(* at construction and at reloads.                                         *)
(***************************************************************************)
LoadBatch == << [filename |-> "a", mapId |-> -1],
                [filename |-> "b", mapId |-> 2],
                [filename |-> "b", mapId |-> 1],
                [filename |-> "a", mapId |-> -1],
                [filename |-> "c", mapId |-> 1] >>

\* GetBoundMapId() of the environments: a map id, or -1 without a map.
LoadMapIds == {-1, 1}

InitLoad == InitEnv({LoadBatch}, LoadMapIds) /\ build = "trinity"

NextLoad ==
    \/ Lifecycle
    \/ Dispatch
    \/ ReloadEluna

SpecLoad == InitLoad /\ [][NextLoad]_vars

(***************************************************************************)
(* Progress of reload requests.  Every started call returns, Update is     *)
(* called again and again, the script source becomes ready again and       *)
(* again.  The builds with TRACKABLE_PTR_NAMESPACE have no callstack id    *)
(* whose bound could stop Update.                                          *)
(***************************************************************************)
InitLive == Init /\ Trackable

\* Steps the program takes on its own once a call has started.
Internal ==
    \/ Constructor
    \/ RunScriptsStep
    \/ RunScriptsEnd
    \/ DispatchCall
    \/ CleanUpStack
    \/ ScriptReturn
    \/ CloseLua
    \/ OpenLua
    \/ ReloadClear
    \/ UpdateTimersDone
    \/ UpdateDone

NextLive ==
    \/ Internal
    \/ CacheChange
    \/ UpdateEluna
    \/ ScriptRegister
    \/ ReloadEluna

UpdateReloads == UpdateEluna /\ ReloadDue(reload, cacheState, queries)

CacheReady == CacheChange /\ ~cacheState

SpecLive ==
    /\ InitLive
    /\ [][NextLive]_vars
    /\ WF_vars(Internal)
    /\ SF_vars(UpdateEluna)
    /\ SF_vars(UpdateReloads)
    /\ SF_vars(CacheReady)

(***************************************************************************)
(* Properties.                                                             *)
(***************************************************************************)
DispatchFrames == { i \in DOMAIN stack : stack[i].kind = "disp" }

\* C1: in a dispatch over a key with several registrations every
\* registration of the key's list is invoked exactly once, in the list's
\* order, whether or not an earlier callback raised an error, and
\* ExecuteCall returns false for exactly the invocations that raised.
Thm_C1 ==
    \A i \in DispatchFrames :
        LET f == stack[i]
        IN  /\ Len(f.log) + f.nfuncs = Len(f.snap)
            /\ \A k \in DOMAIN f.log :
                  /\ f.log[k].id = f.snap[k]
                  /\ f.log[k].ret = ~f.log[k].raised
            /\ f.running => f.cur = f.snap[Len(f.log) + 1]

\* A dispatch of two callbacks has completed; the first raised an error,
\* the second ran and succeeded.
Wit_C1 ==
    \E i \in DispatchFrames :
        LET f == stack[i]
        IN  /\ f.nfuncs = 0
            /\ Len(f.log) >= 2
            /\ f.log[1].raised /\ ~f.log[1].ret
            /\ ~f.log[2].raised /\ f.log[2].ret

Thm_C9 ==
    [][ /\ \A b \in AllBindings :
              (b.limit = 0 /\ b.id \notin AllIds')
                  => \/ (last'.op = "cancel_hit" /\ last'.id = b.id)
                     \/ L' = NULL
        /\ (Len(stack') > Len(stack) /\ stack'[Len(stack')].kind = "disp")
              => LET f == stack'[Len(stack')]
                 IN  \A b \in AllBindings :
                        (b.limit = 0 /\ b.key = f.key)
                            => \E k \in DOMAIN f.snap : f.snap[k] = b.id ]_vars

\* An unlimited binding is still registered after two successful
\* invocations.
Wit_C9 ==
    \E b \in AllBindings : b.limit = 0 /\ b.succ >= 2 /\ b.shots = 0

\* The fields of the environment a cancellation must leave alone.
CancelKeeps ==
    << build, boundMapId, scripts, cacheState, L, reload, event_level, push_counter,
       callstackid, maxBindingID, issued, instanceDataRefs, continentDataRefs,
       timedEvents, queries, handles, cancels, lstack, stack >>

\* C10: invoking a cancel handle removes the registration with the handle's
\* id and nothing else: every store keeps its other registrations in their
\* order, only that registration's callable is released, the calling script
\* goes on; when no registration has the id, nothing changes.  A raise
\* never takes a registration that is not in the store.
Thm_C10 ==
    [][ /\ last'.op \in {"cancel_hit", "cancel_miss"}
              => /\ \A rt \in DOMAIN bindingMaps :
                       bindingMaps'[rt] =
                           SelectSeq(bindingMaps[rt], LAMBDA b : b.id # last'.id)
                 /\ DOMAIN bindingMaps' = DOMAIN bindingMaps
                 /\ registry' =
                       registry \ { b.ref : b \in { x \in AllBindings : x.id = last'.id } }
                 /\ UNCHANGED CancelKeeps
                 /\ (last'.op = "cancel_hit") = (last'.id \in AllIds)
                 /\ last'.id \notin AllIds
                       => UNCHANGED << bindingMaps, registry, pre >>
        /\ (Len(stack') > Len(stack) /\ stack'[Len(stack')].kind = "disp")
              => \A k \in DOMAIN stack'[Len(stack')].snap :
                    stack'[Len(stack')].snap[k] \in AllIds ]_vars

\* A handle was invoked whose registration was already gone, while another
\* registration exists.
Wit_C10 ==
    /\ last.op = "cancel_miss"
    /\ AllIds # {}
    /\ InCall

\* C2 as stated: once the nesting depth is back to 0 and the host has
\* control, no object handle scripts hold carries the current callstack id.
Cex_C2 ==
    (HostControl /\ event_level = 0) => callstackid \notin handles

\* No call is in progress below the top frame.
Outermost == \A i \in 1..(Len(stack) - 1) : ~stack[i].running

\* CallAllFunctions has called every function of its list and returns.
DispatchCompletes ==
    /\ stack # << >>
    /\ Top.kind = "disp" /\ ~Top.running /\ Top.nfuncs = 0
    /\ stack' = Pop(stack)

\* C3: the callstack id changes only by one, only when a hook dispatch
\* that is not nested in any call completes, with event_level 0 before and
\* after; and every such completion changes it.  A dispatch completing
\* inside a call leaves it alone.
Thm_C3 ==
    [][ /\ callstackid' # callstackid
              => /\ callstackid' = callstackid + 1
                 /\ event_level = 0 /\ event_level' = 0
                 /\ DispatchCompletes /\ Outermost
        /\ (DispatchCompletes /\ Outermost) => callstackid' = callstackid + 1
        /\ event_level > 0 => callstackid' = callstackid ]_vars

\* After the callstack id has advanced, a dispatch nested in a callback has
\* called its functions and is about to clean up.
Wit_C3 ==
    /\ callstackid > 2
    /\ stack # << >>
    /\ Top.kind = "disp" /\ ~Top.running /\ Top.nfuncs = 0 /\ Top.log # << >>
    /\ event_level > 0

\* Everything but the reload flag and the history.
RequestKeeps ==
    << build, boundMapId, scripts, cacheState, L, event_level, push_counter, callstackid,
       bindingMaps, maxBindingID, issued, registry, instanceDataRefs, continentDataRefs,
       timedEvents, queries, handles, cancels, lstack, stack >>

Thm_C5 ==
    (pre.active /\ stack # << >> /\ stack[1].kind = "update"
        /\ stack[1].pc \in {"timers", "drain"})
        => /\ AllIds \cap pre.ids = {}
           /\ pre.inst = {}
           /\ pre.refs = {}

\* A reload of an environment that had a binding and instance data has
\* completed, and the freshly loaded scripts have registered a binding.
Wit_C5 ==
    /\ pre.active /\ stack # << >> /\ stack[1].kind = "update"
    /\ stack[1].pc = "timers"
    /\ pre.ids # {} /\ pre.ninst > 0
    /\ AllIds # {}

\* C6 as stated: every reload request is eventually followed by the start
\* of a reload.
Cex_C6 == (last.op = "request") ~> (last.op = "reload_begin")

\* C7: Update starts a reload exactly when the flag is set, the script
\* cache is ready and (where queries exist) none is outstanding; otherwise
\* the reload step changes nothing.
Thm_C7 ==
    [][ (HostControl /\ stack' # << >> /\ stack'[1].kind = "update")
            => LET due == reload /\ cacheState /\ (Trinity => queries = 0)
               IN  /\ (stack'[1].pc = "close") = due
                   /\ ~due => /\ stack' = << UpdateFrame("timers") >>
                              /\ UNCHANGED << L, bindingMaps, reload, registry,
                                              timedEvents, queries, lstack,
                                              instanceDataRefs, continentDataRefs >>
                   /\ due => pre'.active ]_vars

\* Update has skipped the reload step although the flag is set: the
\* script cache is not ready.
Wit_C7 ==
    /\ stack = << UpdateFrame("timers") >>
    /\ reload /\ ~cacheState /\ L # NULL
    /\ ~pre.active

\* Two registrations of one store made with the same key and the same
\* invocation limit.
Twins(rt, i, j) ==
    /\ i # j
    /\ bindingMaps[rt][i].key = bindingMaps[rt][j].key
    /\ bindingMaps[rt][i].limit = bindingMaps[rt][j].limit

\* C11: registering twice with identical parameters gives two registrations
\* with distinct binding ids, each with its own cancel handle; cancelling
\* one of them leaves the other in its store, and a raise of the key takes
\* every registration the key has, the remaining one included.
Thm_C11 ==
    [][ /\ \A rt \in DOMAIN bindingMaps : \A i, j \in DOMAIN bindingMaps[rt] :
              Twins(rt, i, j)
                  => /\ bindingMaps[rt][i].id # bindingMaps[rt][j].id
                     /\ [id |-> bindingMaps[rt][i].id, regtype |-> rt] \in cancels
                     /\ (last'.op = "cancel_hit" /\ last'.id = bindingMaps[rt][i].id)
                           => \E k \in DOMAIN bindingMaps'[rt] :
                                 bindingMaps'[rt][k] = bindingMaps[rt][j]
        /\ (Len(stack') > Len(stack) /\ stack'[Len(stack')].kind = "disp")
              => LET f == stack'[Len(stack')]
                 IN  \A b \in AllBindings :
                        (b.key = f.key /\ b \in AllBindingsOf([r \in {f.regtype} |-> bindingMaps[r]]))
                            => Cardinality({ k \in DOMAIN f.snap : f.snap[k] = b.id }) = 1 ]_vars

\* One of two registrations made with identical parameters has just been
\* cancelled, and the other one is still registered.
Wit_C11 ==
    /\ last.op = "cancel_hit"
    /\ \E rt \in DOMAIN bindingMaps : \E i \in DOMAIN bindingMaps[rt] :
          /\ bindingMaps[rt][i].key = last.key
          /\ bindingMaps[rt][i].limit = last.limit
          /\ bindingMaps[rt][i].id # last.id
          /\ [id |-> last.id, regtype |-> rt] \in cancels

ProbedKeys(store) ==
    { store[i].key : i \in DOMAIN store }
    \cup { EntryKey(e, n) : e \in 0..(INSTANCE_EVENT_COUNT - 1), n \in InstanceIds }

HookKeeps ==
    << build, boundMapId, scripts, cacheState, L, reload, event_level, push_counter,
       callstackid, bindingMaps, maxBindingID, registry, instanceDataRefs,
       continentDataRefs, timedEvents, queries, handles, cancels, lstack, stack >>

\* C14: when the raised key has no registration HasBindingsFor is false and
\* the hook returns at once: nothing is pushed on the interpreter stack, no
\* dispatch starts and no callable is called, and the nesting depth, the
\* callstack id and the push counter are what they were.
Thm_C14 ==
    [][ (last'.op = "raise" /\ Len(BindingsFor(bindingMaps[last'.regtype], last'.key)) = 0)
            => /\ ~HasBindingsFor(bindingMaps[last'.regtype], last'.key)
               /\ UNCHANGED HookKeeps ]_vars

\* A callback has just raised a key without registrations, from inside a
\* dispatch of another key: the interpreter stack holds that dispatch.
Wit_C14 ==
    /\ last.op = "raise"
    /\ ~HasBindingsFor(bindingMaps[last.regtype], last.key)
    /\ InCall /\ Top.kind = "disp" /\ Top.key # last.key
    /\ event_level > 0 /\ lstack # << >>

TimesCalled(f, id) ==
    Cardinality({ k \in DOMAIN f.log : f.log[k].id = id })
        + (IF f.running /\ f.cur = id THEN 1 ELSE 0)

\* C16: a dispatch works on the registrations its key had when it started.
\* A cancellation or a registration made by a callback changes neither the
\* callables the dispatch still has on the interpreter stack nor its count
\* of them; every registration of the snapshot is called once and no more,
\* whether or not it is still registered, and nothing outside the snapshot
\* is called.
Thm_C16 ==
    [][ /\ \A i \in DispatchFrames :
              LET f == stack[i]
                  started == Len(f.log) + (IF f.running THEN 1 ELSE 0)
              IN  /\ \A k \in DOMAIN f.snap :
                        TimesCalled(f, f.snap[k]) = (IF k <= started THEN 1 ELSE 0)
                  /\ \A k \in DOMAIN f.log : \E j \in DOMAIN f.snap : f.snap[j] = f.log[k].id
                  /\ f.nfuncs + Len(f.log) = Len(f.snap)
        /\ (last'.op = "cancel_hit" \/ AllIds' \ AllIds # {})
              => UNCHANGED << stack, lstack, event_level >> ]_vars

\* The first callback of a dispatch over two registrations has just
\* cancelled the second one, which the dispatch has not called yet.
Wit_C16 ==
    /\ last.op = "cancel_hit"
    /\ InCall /\ Top.kind = "disp"
    /\ Len(Top.snap) = 2 /\ Top.cur = Top.snap[1]
    /\ last.id = Top.snap[2] /\ last.key = Top.key

\* The event family of each registration type and its count of event ids.
EventCountOf(regtype) ==
    CASE regtype = "REGTYPE_SERVER" -> SERVER_EVENT_COUNT
      [] regtype = "REGTYPE_PLAYER" -> PLAYER_EVENT_COUNT
      [] regtype = "REGTYPE_GUILD" -> GUILD_EVENT_COUNT
      [] regtype = "REGTYPE_GROUP" -> GROUP_EVENT_COUNT
      [] regtype = "REGTYPE_VEHICLE" -> VEHICLE_EVENT_COUNT
      [] regtype = "REGTYPE_BG" -> BG_EVENT_COUNT
      [] regtype = "REGTYPE_PACKET" -> PACKET_EVENT_COUNT
      [] regtype \in {"REGTYPE_CREATURE", "REGTYPE_CREATURE_UNIQUE"} -> CREATURE_EVENT_COUNT
      [] regtype \in {"REGTYPE_CREATURE_GOSSIP", "REGTYPE_GAMEOBJECT_GOSSIP",
                      "REGTYPE_ITEM_GOSSIP", "REGTYPE_PLAYER_GOSSIP"} -> GOSSIP_EVENT_COUNT
      [] regtype = "REGTYPE_GAMEOBJECT" -> GAMEOBJECT_EVENT_COUNT
      [] regtype = "REGTYPE_SPELL" -> SPELL_EVENT_COUNT
      [] regtype = "REGTYPE_ITEM" -> ITEM_EVENT_COUNT
      [] regtype \in {"REGTYPE_MAP", "REGTYPE_INSTANCE"} -> INSTANCE_EVENT_COUNT

\* A registration call that must fail.
InvalidRegistration(in) ==
    \/ in.regtype \notin RegTypes
    \/ in.event_id >= EventCountOf(in.regtype)
    \/ /\ in.regtype \in {"REGTYPE_CREATURE", "REGTYPE_CREATURE_GOSSIP"}
       /\ in.entry \notin CreatureTemplates
    \/ /\ in.regtype \in {"REGTYPE_GAMEOBJECT", "REGTYPE_GAMEOBJECT_GOSSIP"}
       /\ in.entry \notin GameObjectTemplates
    \/ /\ in.regtype \in {"REGTYPE_ITEM", "REGTYPE_ITEM_GOSSIP"}
       /\ in.entry \notin ItemTemplates
    \/ in.regtype = "REGTYPE_PACKET" /\ in.entry >= NUM_MSG_TYPES
    \/ in.regtype = "REGTYPE_CREATURE_UNIQUE" /\ in.guid = 0

TypeMin(T) ==
    CASE T = "signed char" -> Num("-128")
      [] T = "short" -> Num("-32768")
      [] T = "int" -> Num("-2^31")
      [] T \in {"long long", "long"} -> Num("-2^63")
      [] OTHER -> Num("0")

TypeMax(T) ==
    CASE T = "signed char" -> Num("127")
      [] T = "unsigned char" -> Num("255")
      [] T = "short" -> Num("32767")
      [] T = "unsigned short" -> Num("65535")
      [] T = "int" -> Num("2^31-1")
      [] T = "unsigned int" -> Num("2^32-1")
      [] T \in {"long long", "long"} -> Num("2^63-1024")
      [] T \in {"unsigned long long", "unsigned long"} -> Num("2^64-2048")

\* C18 as stated: for every integer type T and integer-valued argument v
\* the check returns v when minT <= v <= maxT, and otherwise raises an
\* argument error that names the bound v violates.
Cex_C18 ==
    last.op = "checkval"
        => LET T == last.type
               v == last.value
               r == last.out
           IN  IF TypeMin(T) <= v /\ v <= TypeMax(T)
               THEN r.ok /\ r.ret = v
               ELSE /\ ~r.ok
                    /\ r.bound = (IF v < TypeMin(T) THEN TypeMin(T) ELSE TypeMax(T))

\* The records of the instance data map a map's data lives in, and the id
\* it is stored under.
DataTable(map) == IF map.instanceable THEN instanceDataRefs ELSE continentDataRefs

DataId(map) == IF map.instanceable THEN map.instanceId ELSE map.id

\* C19: an instance data id has at most one record, and the record's
\* reference is live and held by nothing else.  When CreateInstanceData
\* stores a table for a map, the reference it takes is new, the map has
\* data afterwards and PushInstanceData pushes that table; if the id had a
\* record, exactly that record's reference is released, which was live
\* until then; nothing else is released and the records of other ids stay.
Thm_C19 ==
    [][ /\ \A map \in Maps :
              /\ \A p, q \in DataTable(map) : p[1] = q[1] => p = q
              /\ \A p \in DataTable(map) :
                    /\ p[2] \in registry
                    /\ \A b \in AllBindings : b.ref # p[2]
                    /\ \A q \in InstRecords : q[2] = p[2] => q = p
        /\ \A map \in Maps :
              \A p \in DataTable(map)' \ DataTable(map) :
                 p[1] = DataId(map)
                     => LET old == { q \in DataTable(map) : q[1] = p[1] }
                        IN  /\ p[2] \notin registry
                            /\ HasInstanceData(map)'
                            /\ InstanceDataRef(map)' = p[2]
                            /\ DataTable(map)' = (DataTable(map) \ old) \cup {p}
                            /\ registry' = (registry \cup {p[2]}) \ { q[2] : q \in old }
                            /\ Cardinality(old) <= 1
                            /\ \A m \in Maps :
                                  m.instanceable # map.instanceable
                                      => DataTable(m)' = DataTable(m) ]_vars

\* Instance 7 and a continent both have data, and a table stored earlier
\* has been replaced by a second one: its reference, slot 1 of the
\* registry, is free again, while slot 2 was taken when slot 1 was live.
Wit_C19 ==
    /\ instanceDataRefs = { << 7, 2 >> }
    /\ continentDataRefs # {}
    /\ 1 \notin registry
    /\ maxBindingID = 0

\* The registrations scoped to an instance id: those of the instance store
\* whose key carries the id.
ScopedTo(instanceId) ==
    { b \in AllBindings :
         /\ \E i \in DOMAIN bindingMaps["REGTYPE_INSTANCE"] :
               bindingMaps["REGTYPE_INSTANCE"][i] = b
         /\ b.key.entry = instanceId }

\* C20 as stated: once FreeInstanceId(id) has run, the id has no instance
\* data and no registration scoped to the id is left in a store, whatever
\* the event id it was registered under.
Cex_C20 ==
    last.op = "free"
        => /\ \A p \in instanceDataRefs : p[1] # last.id
           /\ ScopedTo(last.id) = {}

\* C21: PushInstanceData never pushes anything but the table of the map's
\* record: when the map has no record (after a reload, after FreeInstanceId
\* or before the first creation) the AI's reload routine runs once before
\* the lookup and the table of the record it created is pushed; when the
\* map has a record the routine is not run, no record changes, and the
\* stored table is pushed.
Thm_C21 ==
    [][ \A map \in Maps :
          (last'.op = "pushdata" /\ last'.map = map)
            => LET top == lstack'[Len(lstack')]
               IN  /\ Len(lstack') = Len(lstack) + 1
                   /\ last'.reloads = (IF HasInstanceData(map) THEN 0 ELSE 1)
                   /\ HasInstanceData(map)'
                   /\ top = TableValue(InstanceDataRef(map)')
                   /\ top.v \in registry'
                   /\ \A p, q \in DataTable(map)' : p[1] = q[1] => p = q
                   /\ HasInstanceData(map)
                         => /\ UNCHANGED << registry, instanceDataRefs, continentDataRefs >>
                            /\ top = TableValue(InstanceDataRef(map))
                   /\ ~HasInstanceData(map)
                         => /\ top.v \notin registry
                            /\ DataTable(map)' = DataTable(map) \cup { << DataId(map), top.v >> }
                            /\ registry' = registry \cup {top.v} ]_vars

\* The data of instance 7 was missing when a hook pushed it, while the
\* continent had data: the reload routine ran once and the instance has a
\* record again, whose table is on the interpreter stack.
Wit_C21 ==
    /\ last.op = "pushdata" /\ last.reloads = 1
    /\ last.map.instanceable
    /\ continentDataRefs # {}
    /\ lstack # << >> /\ lstack[Len(lstack)] = TableValue(InstanceDataRef(last.map))

\* The frames of RunScripts on the control stack.
RunFrames == { i \in DOMAIN stack : stack[i].kind = "run" }

\* A script is executed when `require` is called on it.
Executed(fate) == fate \in {"loaded", "failed"}

\* Script i of the list passes the map filter and no earlier script that
\* passes it has the same name.
Eligible(i) ==
    /\ scripts[i].mapId = -1 \/ scripts[i].mapId = boundMapId
    /\ \A j \in 1..(i - 1) :
          (scripts[j].mapId = -1 \/ scripts[j].mapId = boundMapId)
              => scripts[j].filename # scripts[i].filename

\* The fates in log are those of the first scripts of the list, in list
\* order: exactly the eligible ones were executed.
FatesFollowList(log) ==
    /\ Len(log) <= Len(scripts)
    /\ \A k \in DOMAIN log : Executed(log[k]) <=> Eligible(k)

StateOpenKey == EventKey(ELUNA_EVENT_ON_LUA_STATE_OPEN)

\* C22: while a batch is loaded, every script before the current one has
\* been dealt with, in list order: each eligible script was executed,
\* whether or not an earlier script failed, and a script that is filtered
\* out or repeats a name was skipped; a failed script ends neither the
\* loop nor the batch.  RunScripts ends only after the last script, and
\* then raises the state-open event, whatever failed: its callbacks are
\* dispatched exactly when it has registrations.
Thm_C22 ==
    [][ /\ \A i \in RunFrames :
              LET f == stack[i]
              IN  /\ Len(f.log) = f.idx - 1
                  /\ FatesFollowList(f.log)
                  /\ f.running => (f.idx <= Len(scripts) /\ Eligible(f.idx))
        /\ (stack # << >> /\ Top.kind = "run" /\ Len(stack') = Len(stack)
               /\ stack'[Len(stack')].kind = "run")
              => LET g == stack'[Len(stack')]
                 IN  /\ g.idx \in {Top.idx, Top.idx + 1}
                     /\ (Top.running /\ ~g.running) => g.idx = Top.idx + 1
                     /\ (~Top.running /\ g.running)
                           => (g.idx = Top.idx /\ Eligible(g.idx))
                     /\ (~Top.running /\ ~g.running /\ g # Top)
                           => (g.idx = Top.idx + 1 /\ ~Eligible(Top.idx))
        /\ (RunFrames # {} /\ RunFrames' = {})
              => /\ last'.op = "batch_done"
                 /\ Len(last'.log) = Len(scripts) /\ FatesFollowList(last'.log)
                 /\ HasBindingsFor(bindingMaps["REGTYPE_SERVER"], StateOpenKey)
                       <=> /\ Len(stack') = Len(stack)
                           /\ stack'[Len(stack')].kind = "disp"
                           /\ stack'[Len(stack')].key = StateOpenKey
                           /\ stack'[Len(stack')].nfuncs > 0 ]_vars

\* A batch has ended in which the first and the last script failed; the
\* scripts between them were dealt with, and the state-open callback one
\* of them registered is being dispatched.
Wit_C22 ==
    /\ last.op = "batch_done"
    /\ last.log = << "failed", "filtered", "loaded", "duplicate", "failed" >>
    /\ stack # << >> /\ Top.kind = "disp" /\ Top.key = StateOpenKey

\* At most one script of each name was executed, the first of that name
\* that passes the map filter; a skipped duplicate repeats the name of a
\* script that was executed before it.
OnePerName(log) ==
    /\ \A j, k \in DOMAIN log :
          (j < k /\ Executed(log[j]) /\ Executed(log[k]))
              => scripts[j].filename # scripts[k].filename
    /\ \A k \in DOMAIN log :
          /\ Executed(log[k])
                => \A j \in 1..(k - 1) :
                      scripts[j].filename = scripts[k].filename => log[j] = "filtered"
          /\ log[k] = "duplicate"
                => \E j \in 1..(k - 1) :
                      Executed(log[j]) /\ scripts[j].filename = scripts[k].filename
          /\ (log[k] # "filtered"
                 /\ \A j \in 1..(k - 1) :
                       scripts[j].filename = scripts[k].filename => log[j] = "filtered")
                => Executed(log[k])

\* C23: in one batch at most one script per name is executed, and it is
\* the first of that name that passes the map filter: a script of the same
\* name that was filtered out does not make a later one a duplicate, a
\* script that was executed and failed does.  The names in `loaded` are
\* those of the scripts executed so far.
Thm_C23 ==
    /\ \A i \in RunFrames :
          LET f == stack[i]
          IN  /\ OnePerName(f.log)
              /\ f.loaded =
                    { scripts[k].filename : k \in { j \in DOMAIN f.log : Executed(f.log[j]) } }
                       \cup (IF f.running THEN { scripts[f.idx].filename } ELSE {})
    /\ last.op = "batch_done" => OnePerName(last.log)

\* Script "b" was executed although a script "b" tagged for another map
\* precedes it, and the second script "a" was skipped as a duplicate of the
\* first, which had failed.
Wit_C23 ==
    /\ last.op = "batch_done"
    /\ last.log[1] = "failed" /\ last.log[4] = "duplicate"
    /\ last.log[2] = "filtered" /\ last.log[3] = "loaded"
    /\ scripts[2].filename = scripts[3].filename
    /\ scripts[1].filename = scripts[4].filename

\* Every script executed is global or tagged with the map of the
\* environment.
OnlyOwnMap(log) ==
    \A k \in DOMAIN log :
        Executed(log[k])
            => /\ scripts[k].mapId = -1 \/ scripts[k].mapId = boundMapId
               /\ boundMapId = -1 => scripts[k].mapId = -1

\* C24: a script is executed for an environment only if it is global (map
\* id -1) or tagged with the id of the map the environment is bound to; an
\* environment bound to no map executes only global scripts.
Thm_C24 ==
    /\ \A i \in RunFrames :
          LET f == stack[i]
          IN  /\ OnlyOwnMap(f.log)
              /\ f.running
                    => /\ scripts[f.idx].mapId \in {-1, boundMapId}
                       /\ boundMapId = -1 => scripts[f.idx].mapId = -1
    /\ last.op = "batch_done" => OnlyOwnMap(last.log)

\* An environment bound to no map has loaded the batch: the global script
\* was executed, the scripts tagged for maps 1 and 2 were filtered out.
Wit_C24 ==
    /\ boundMapId = -1
    /\ last.op = "batch_done"
    /\ last.log[1] = "loaded"
    /\ last.log[2] = "filtered" /\ last.log[3] = "filtered" /\ last.log[5] = "filtered"

\* The constructor, or the RunScripts or the state-open dispatch it
\* started, is the bottom frame: the environment is being created.
Creating ==
    /\ stack # << >>
    /\ \/ stack[1].kind \in {"ctor", "run"}
       \/ stack[1].kind = "disp" /\ stack[1].key = StateOpenKey

\* The constructor returns to the host.
CreateCompletes == Creating /\ stack' = << >>

\* C25 as stated: when Create returns, either the script source was ready,
\* the scripts have been run and reload is false, or the source was not
\* ready, no script has been run and reload is true.
Cex_C25 ==
    [][ CreateCompletes
            => \/ cacheState /\ stack[1].kind # "ctor" /\ ~reload'
               \/ ~cacheState /\ stack[1].kind = "ctor" /\ reload' ]_vars

\* C25 amended: when Create returns, either the script source was ready
\* and the scripts have been run, and then reload is true only if a script
\* requested a reload while Create ran; or the source was not ready, no
\* script has been run and reload is true.  The flag stays set until a
\* reload has run the scripts, and Update starts that reload at the first
\* call at which the source is ready and no query is outstanding.
Thm_C25 ==
    [][ /\ (stack # << >> /\ stack[1].kind = "ctor") => (~reload /\ L = NULL)
        /\ (Creating /\ reload' # reload)
              => \/ last'.op = "request"
                 \/ stack[1].kind = "ctor" /\ ~cacheState /\ reload' /\ stack' = << >>
        /\ CreateCompletes
              => /\ L' # NULL
                 /\ cacheState <=> stack[1].kind # "ctor"
                 /\ ~cacheState => (reload' /\ AllIds' = {} /\ issued' = {})
        /\ (stack # << >> /\ stack[1].kind = "ctor" /\ cacheState)
              => (stack' = << RunFrame >> /\ reload' = reload)
        /\ (reload /\ ~reload')
              => (stack # << >> /\ Top.kind = "update" /\ Top.pc = "clear")
        /\ (HostControl /\ stack' # << >> /\ stack'[1].kind = "update" /\ reload)
              => (stack'[1].pc = "close") = (cacheState /\ (Trinity => queries = 0))
        /\ (stack # << >> /\ Top.kind = "update" /\ Top.pc = "open")
              => stack'[Len(stack')] = RunFrame ]_vars

\* Create has just returned in an environment whose script source was not
\* ready: the interpreter is open, nothing is registered, reload is set.
Wit_C25 ==
    /\ last.op = "create"
    /\ HostControl /\ L # NULL
    /\ ~cacheState /\ reload
    /\ AllIds = {}
ReturnedTrue(log) ==
    \E i \in DOMAIN log : ~log[i].raised /\ log[i].val = << BoolValue(TRUE) >>

Delivered == queries' < queries /\ L' = L /\ last'.op # "reload_begin"

\* A reload starts: UpdateEluna enters _ReloadEluna.
ReloadStarts == HostControl /\ last'.op = "reload_begin"

\* The interpreter is closed: what is outstanding now was issued before the
\* reload and can only be delivered after it.
InterpreterCloses == L # NULL /\ L' = NULL

DeliveredByDrain ==
    Delivered => /\ stack # << >> /\ Top.kind = "update" /\ Top.pc = "drain"
                 /\ Len(stack) = 1

Thm_C28 ==
    last.op = "execute" =>
        LET below == SubSeq(last.before, 1, Len(last.before) - last.params - 1)
            left == SubSeq(last.after, Len(below) + 1, Len(last.after))
        IN  /\ Len(last.after) = Len(below) + last.res
            /\ SubSeq(last.after, 1, Len(below)) = below
            /\ last.raised => \A i \in 1..last.res : left[i] = NilValue
            /\ ~last.raised =>
                   \A i \in 1..last.res :
                       left[i] = IF i <= Len(last.returned) THEN last.returned[i]
                                 ELSE NilValue
            /\ \A i \in DOMAIN last.after : last.after[i].t \notin {"err", "trace"}

Wit_C28 ==
    /\ last.op = "execute"
    /\ last.raised /\ last.usetrace
    /\ last.params = 2 /\ last.res = 2
    /\ Len(last.before) = 4
    /\ last.after = << EvValue(1), NilValue, NilValue >>

\* The wrapper the tag decides for a reference of static type T.
WrapperFor(T, tag) ==
    CASE tag = "TYPEID_UNIT" -> "Creature"
      [] tag = "TYPEID_PLAYER" -> "Player"
      [] tag = "TYPEID_GAMEOBJECT" /\ T \in {"WorldObject", "Object"} -> "GameObject"
      [] tag = "TYPEID_CORPSE" /\ T \in {"WorldObject", "Object"} -> "Corpse"
      [] OTHER -> T

\* C29: pushing a host object reference of static type Unit, WorldObject
\* or Object pushes exactly one value: nil for an absent reference, else
\* the wrapper its type tag decides (Creature, Player, and for WorldObject
\* and Object also GameObject and Corpse), and for any other tag the
\* wrapper of the static type.
Thm_C29 ==
    last.op = "pushobj" =>
        /\ Len(lstack) = last.depth + 1
        /\ lstack[Len(lstack)] =
               IF last.ptr = NULL THEN NilValue
               ELSE [t |-> WrapperFor(last.static, last.ptr), v |-> 0]

Wit_C29 ==
    /\ last.op = "pushobj"
    /\ last.static = "Object" /\ last.ptr = "TYPEID_CORPSE"
    /\ lstack = << [t |-> "Unit", v |-> 0], [t |-> "Corpse", v |-> 0] >>

\* The wrapper types an object check for T tries, most specific first.
Chain(T) ==
    CASE T = "Unit" -> << "Player", "Creature", "Unit" >>
      [] T = "WorldObject" -> << "Player", "Creature", "Unit", "GameObject", "Corpse",
                                 "WorldObject" >>
      [] T = "Object" -> << "Player", "Creature", "Unit", "GameObject", "Corpse",
                            "WorldObject", "Item", "Object" >>

\* The places of the chain the argument's wrapper type matches.
Matches(chain, arg) == { i \in DOMAIN chain : arg = [t |-> chain[i], v |-> 0] }

FirstMatch(chain, arg) == CHOOSE i \in Matches(chain, arg) : \A j \in Matches(chain, arg) : i <= j

\* C30: an object check tries the wrapper types of its chain from the most
\* specific to the most general and returns the first match; no attempt
\* but the last may raise, and the type-mismatch error is raised exactly
\* when no type of the chain matches and errors are enabled; without a
\* match and without errors the result is null.
Thm_C30 ==
    (last.op = "checkobj" /\ last.type \in ChainTypes) =>
        LET chain == Chain(last.type)
            out == last.out
            n == IF Matches(chain, last.arg) = {} THEN Len(chain)
                 ELSE FirstMatch(chain, last.arg)
        IN  /\ [i \in DOMAIN out.tried |-> out.tried[i].tname] = SubSeq(chain, 1, n)
            /\ \A i \in DOMAIN out.tried :
                   i < Len(chain) => ~out.tried[i].error /\ ~out.tried[i].raised
            /\ out.obj = IF Matches(chain, last.arg) = {} THEN NULL ELSE chain[n]
            /\ out.raised <=> (Matches(chain, last.arg) = {} /\ last.error)

Wit_C30 ==
    /\ last.op = "checkobj" /\ last.type = "Object" /\ last.error
    /\ last.arg = [t |-> "Aura", v |-> 0]
    /\ Len(last.out.tried) = 8
    /\ last.out.raised /\ last.out.obj = NULL

\* The protected calls on the call stack: the frames whose function runs.
ProtectedCalls == { i \in DOMAIN stack : stack[i].running }

\* C31: event_level is balanced by every ExecuteCall, on success and on
\* failure: it is the number of protected calls on the call stack, so it is
\* one higher inside a protected call than before it, back to its value
\* when ExecuteCall returns, and 0 whenever the host has control.
Thm_C31 ==
    /\ event_level = Cardinality(ProtectedCalls)
    /\ HostControl => event_level = 0

Wit_C31 ==
    /\ event_level = 1
    /\ Len(stack) = 2
    /\ stack[1].kind = "disp" /\ stack[1].running
    /\ stack[2].kind = "disp" /\ ~stack[2].running
    /\ Len(stack[2].log) = 1 /\ stack[2].log[1].raised

\* CloseLua is running its state-close notification.
Closing == stack # << >> /\ stack[1].kind = "update" /\ stack[1].pc = "close"

StoresExist(maps) == DOMAIN maps = RegTypes

StoresDestroyed(maps) == DOMAIN maps = {}

\* C32: closing the interpreter follows a fixed order: the state-close
\* notification is dispatched while all binding stores exist, then the
\* stores are destroyed, and only then is the interpreter closed;
\* afterwards the interpreter handle is null and both instance data maps
\* are empty.
Thm_C32 ==
    /\ Closing => L # NULL /\ StoresExist(bindingMaps)
    /\ last.op = "close" =>
          LET steps == last.steps
          IN  /\ steps[1].L # NULL /\ StoresExist(steps[1].bindingMaps)
              /\ \E i \in DOMAIN steps :
                     StoresDestroyed(steps[i].bindingMaps) /\ steps[i].L # NULL
              /\ \A i \in DOMAIN steps :
                     steps[i].L = NULL => StoresDestroyed(steps[i].bindingMaps)
              /\ L = NULL /\ StoresDestroyed(bindingMaps)
              /\ instanceDataRefs = {} /\ continentDataRefs = {}

Wit_C32 ==
    /\ last.op = "close"
    /\ AllBindingsOf(last.steps[1].bindingMaps) # {}
    /\ last.steps[1].instanceDataRefs # {}
    /\ last.steps[1].continentDataRefs # {}
    /\ L = NULL /\ instanceDataRefs = {}

\* The reload flag is cleared.
FlagCleared == reload /\ ~reload'

\* _ReloadEluna is at its last statement: the interpreter is open again
\* and RunScripts has returned.
AfterRunScripts ==
    /\ stack = << UpdateFrame("clear") >>
    /\ L # NULL /\ pre.active

UpdatePc(s) == IF s # << >> /\ s[1].kind = "update" THEN s[1].pc ELSE "none"

\* The order of UpdateEluna's parts: the reload (close, open, clear) if
\* there is one, the timed events, the drain, the return.
UpdateOrder ==
    { << "none", "close" >>, << "none", "timers" >>, << "close", "open" >>,
      << "open", "clear" >>, << "clear", "timers" >>, << "timers", "drain" >>,
      << "drain", "none" >> }

\* C34: every Update advances the timed events and then drains the
\* completed asynchronous callbacks, whether or not a reload is pending or
\* was performed; a reload performed in that Update comes before both.
Thm_C34 ==
    [][ LET a == UpdatePc(stack)
            b == UpdatePc(stack')
        IN  /\ a # b => << a, b >> \in UpdateOrder
            /\ (timedEvents' < timedEvents /\ last'.op # "reload_begin") => a = "timers"
            /\ Delivered => a = "drain"
            /\ (L # L' \/ FlagCleared) => a \in {"none", "close", "open", "clear"} ]_vars

Wit_C34 ==
    /\ stack = << UpdateFrame("drain") >>
    /\ pre.active /\ L # NULL
    /\ reload

\* A CallOneFunction step: the dispatch on top starts its next callback.
CallStep ==
    /\ stack # << >> /\ Top.kind = "disp" /\ ~Top.running
    /\ Len(stack') = Len(stack) /\ stack'[Len(stack')].running

\* C35: each CallOneFunction step invokes exactly one callable, the one on
\* top of the function list; it passes it a fresh copy of the event id
\* followed by the shared arguments in push order, takes that callable off
\* the stack, leaves the shared arguments and the remaining callables in
\* place, and returns the stack position of the first result.
Thm_C35 ==
    [][ CallStep =>
          LET f == Top
              g == stack'[Len(stack')]
              n == f.nargs + 1
              first == Len(lstack) - f.nfuncs - n + 1
          IN  /\ lstack[Len(lstack)] = FnValue(g.cur)
              /\ event_level' = event_level + 1
              /\ g.passed = SubSeq(lstack, first, first + n - 1)
              /\ g.passed = << EvValue(f.key.event_id) >> \o [i \in 1..f.nargs |-> ArgValue(i)]
              /\ lstack' = SubSeq(lstack, 1, Len(lstack) - 1)
              /\ g.r = Len(lstack') + 1 ]_vars

Wit_C35 ==
    /\ InCall /\ Top.kind = "disp"
    /\ Len(Top.snap) = 2 /\ Top.cur = Top.snap[1] /\ Top.nargs = 1
    /\ Top.passed = << EvValue(Top.key.event_id), ArgValue(1) >>
    /\ lstack = << EvValue(Top.key.event_id), ArgValue(1), FnValue(Top.snap[2]) >>
    /\ Top.r = 4

\* The key a registration of type regtype is filed under: the shape of the
\* store CreateBindStores makes for the type.
KeyOfType(in) ==
    IF in.regtype \in EventKeyTypes THEN EventKey(in.event_id)
    ELSE IF in.regtype \in EntryKeyTypes THEN EntryKey(in.event_id, in.entry)
    ELSE UniqueObjectKey(in.event_id, in.guid, in.instanceId)

\* C36: a successful Register appends exactly one registration to the store
\* of the given registration type, under the key shape of that type (event
\* only, event and entry, or event, object identity and instance id); the
\* earlier registrations of that store and every other store are unchanged,
\* the callable's reference is retained, and exactly one cancellation handle
\* is made, bound to the new registration's id and to that store.
Thm_C36 ==
    [][ last'.op = "registered" =>
          LET in == last'.in
              rt == in.regtype
              old == bindingMaps[rt]
              new == bindingMaps'[rt]
          IN  /\ Len(new) = Len(old) + 1
              /\ SubSeq(new, 1, Len(old)) = old
              /\ new[Len(new)].id = last'.id
              /\ last'.id \notin AllIds
              /\ new[Len(new)].key = KeyOfType(in)
              /\ \A o \in DOMAIN bindingMaps \ {rt} : bindingMaps'[o] = bindingMaps[o]
              /\ new[Len(new)].ref \notin registry
              /\ registry' = registry \cup {new[Len(new)].ref}
              /\ [id |-> last'.id, regtype |-> rt] \notin cancels
              /\ cancels' = cancels \cup {[id |-> last'.id, regtype |-> rt]} ]_vars

\* A unique creature registration has just been accepted while a creature
\* registration exists.
Wit_C36 ==
    /\ last.op = "registered"
    /\ last.in.regtype = "REGTYPE_CREATURE_UNIQUE"
    /\ Len(bindingMaps["REGTYPE_CREATURE_UNIQUE"]) = 1
    /\ bindingMaps["REGTYPE_CREATURE"] # << >>
    /\ [id |-> last.id, regtype |-> "REGTYPE_CREATURE_UNIQUE"] \in cancels

\* The references the registry holds for the instance data tables.
DataRefs == { p[2] : p \in InstRecords }

\* C37: every reference taken for a callable handed to Register is held by
\* exactly one live registration or has been released: a live registration's
\* reference is in the registry, no two registrations share one, the
\* registry holds no callable reference whose registration is gone or was
\* rejected, and a rejected Register released its reference exactly once.
Thm_C37 ==
    /\ \A b \in AllBindings : b.ref \in registry /\ b.ref \notin DataRefs
    /\ \A b1, b2 \in AllBindings : b1.ref = b2.ref => b1 = b2
    /\ registry \ DataRefs = { b.ref : b \in AllBindings }
    /\ last.op = "reg_rejected" => last.released = 1

\* A registration was rejected while another registration is live and every
\* binding id of the bound has been issued.
Wit_C37 ==
    /\ last.op = "reg_rejected"
    /\ AllBindings # {}
    /\ maxBindingID = MaxBindingId

\* The registrations of store regtype, as a set.
StoreOf(maps, regtype) == { maps[regtype][i] : i \in DOMAIN maps[regtype] }

\* C38 as stated: FreeInstanceId(id) changes nothing but what belongs to the
\* instance id: the registrations of the instance store under other instance
\* ids, the registrations of the map store (which are filed under a map id),
\* every other store, the data records of other instance ids and the records
\* of the non-instanced maps are as before.
Cex_C38 ==
    [][ last'.op = "free" /\ last' # last =>
          /\ \A b \in StoreOf(bindingMaps, "REGTYPE_INSTANCE") :
                b.key.entry # last'.id
                   => b \in StoreOf(bindingMaps', "REGTYPE_INSTANCE")
          /\ bindingMaps'["REGTYPE_MAP"] = bindingMaps["REGTYPE_MAP"]
          /\ \A rt \in RegTypes \ {"REGTYPE_INSTANCE", "REGTYPE_MAP"} :
                bindingMaps'[rt] = bindingMaps[rt]
          /\ \A p \in instanceDataRefs : p[1] # last'.id => p \in instanceDataRefs'
          /\ continentDataRefs' = continentDataRefs ]_vars

\* C39 as stated: in every hook each pushed argument is counted: when the
\* dispatch helper is invoked the pushed-argument counter equals the number
\* of values the hook pushed, every callback receives the event id and all
\* of them, and after the dispatch the stack is as high as before the hook.
Cex_C39 ==
    last.op = "hook"
        => /\ last.counter = last.pushed
           /\ \A k \in DOMAIN last.passed : Len(last.passed[k]) = last.pushed + 1
           /\ Len(lstack) = last.before

\* The registration calls that Register accepts, among calls of every shape.
AcceptedInputs ==
    { in \in AnyRegInputs :
         Register(in.regtype, in.entry, in.guid, in.instanceId, in.event_id).ok }

\* The shape of a key value.
ShapeOf(key) ==
    IF DOMAIN key = {"event_id"} THEN "EventKey"
    ELSE IF DOMAIN key = {"event_id", "entry"} THEN "EntryKey"
    ELSE "UniqueObjectKey"

\* The store lookups of GetAI (943-944), GetInstanceData (964-965) and
\* FreeInstanceId (1028-1029).
Lookups ==
    { [type |-> "REGTYPE_CREATURE", T |-> KeyType("EntryKey", "CreatureEvents")],
      [type |-> "REGTYPE_CREATURE_UNIQUE", T |-> KeyType("UniqueObjectKey", "CreatureEvents")],
      [type |-> "REGTYPE_MAP", T |-> KeyType("EntryKey", "InstanceEvents")],
      [type |-> "REGTYPE_INSTANCE", T |-> KeyType("EntryKey", "InstanceEvents")] }

\* C40: whenever the interpreter is open, every registration type Register
\* accepts has a store of the key type Register asks for, the key Register
\* builds has that shape, and the lookups of GetAI, GetInstanceData and
\* FreeInstanceId find their stores: no lookup for an accepted type yields
\* a null store, after the first OpenLua and after every reload.
Thm_C40 ==
    L # NULL =>
       /\ \A in \in AcceptedInputs :
             /\ GetBinding(bindingMaps, RegisterKeyType(in.regtype), in.regtype)
             /\ ShapeOf(Register(in.regtype, in.entry, in.guid, in.instanceId,
                                 in.event_id).key) = RegisterKeyType(in.regtype).shape
       /\ \A l \in Lookups : GetBinding(bindingMaps, l.T, l.type)
       /\ \A rt \in DOMAIN bindingMaps : \A i \in DOMAIN bindingMaps[rt] :
             ShapeOf(bindingMaps[rt][i].key) = StoreKeyType(rt).shape

\* A reload has closed the interpreter and opened a new one, and a script
\* of the new batch has registered a callback in the new stores.
Wit_C40 ==
    /\ L # NULL
    /\ stack # << >> /\ stack[1].kind = "update" /\ stack[1].pc = "clear"
    /\ AllBindings # {}
    /\ \A rt \in RegTypes : rt \in DOMAIN bindingMaps
====
